---- MODULE Spec2Model ----
(***************************************************************************)
(* The resume-to-job matching and scoring engine of get-that-job:          *)
(* atsScorer (scoreResume and its helpers), skillsGapAnalyzer              *)
(* (analyzeSkillsGap) and salaryEstimator (estimateSalary), checked over   *)
(* bounded sets of resumes, jobs, answers and strings; and the             *)
(* useAchievementBank hook with its localStorage item.                     *)
(*                                                                         *)
(* A JavaScript string is a sequence of one-character strings, so that     *)
(* case folding, punctuation stripping, trimming, substring search and     *)
(* the word-boundary regular expression are computed character by          *)
(* character.  A value that may be undefined is a sequence of length 0     *)
(* (undefined) or 1 (the value).  Scores with two decimals are integers    *)
(* counting hundredths (8000 is 80.00); arithmetic is exact.               *)
(***************************************************************************)
EXTENDS Integers, Sequences, FiniteSets, TLC

VARIABLES
    haystack,       \* countKeywordOccurrences: the text argument
    needle,         \* countKeywordOccurrences: the keyword argument
    occurrences,    \* countKeywordOccurrences: the returned number
    tpc,            \* "call" before countKeywordOccurrences ran, "done" after
    resume,         \* scoreResume: the resumeContent argument
    job,            \* scoreResume: the jobAnalysis argument
    scored,         \* scoreResume: how the call ended, its locals, its report
    pc,             \* "call" before scoreResume ran, "done" after
    answers,        \* the userAnswers argument of the other two entry points
    ats,            \* estimateSalary: the atsScore argument
    gap,            \* analyzeSkillsGap: how the call ended, its report
    gpc,            \* "call" before analyzeSkillsGap ran, "done" after
    salary,         \* estimateSalary: how the promise settled, its report
    epc,            \* "call" before estimateSalary ran, "done" after
    reordered,      \* calculateKeywordMatch: job's atsKeywords in another order
    matchGiven,     \* calculateKeywordMatch: the outcome for job's atsKeywords
    matchReordered, \* calculateKeywordMatch: the outcome for reordered
    kpc,            \* "call" before the first of these two calls, "done" after
    rpc,            \* "call" before the second of these two calls, "done" after
    input,          \* normalizeKeyword: the keyword argument
    once,           \* normalizeKeyword(input)
    twice,          \* normalizeKeyword(once)
    npc,            \* "call", then "once", then "twice"
    log,            \* the entry-point calls made so far, oldest first: which
                    \* function, the arguments before and after, the result
    storage,        \* localStorage: the item under STORAGE_KEY, if any
    writable,       \* whether localStorage.setItem stores, or throws
    achievements,   \* useAchievementBank: the achievements state
    lastUpdated,    \* useAchievementBank: the lastUpdated state
    isLoaded,       \* useAchievementBank: the isLoaded state
    queue,          \* the state updates made since the last render
    effects,        \* the effects of the last render that have not yet run
    call,           \* the latest call of a method of the hook, its result
    nextId,         \* what generateId has handed out so far
    writes          \* the clock of new Date(): the writes made so far

tvars == <<haystack, needle, occurrences, tpc>>
args == <<resume, job, answers, ats>>
ovars == <<reordered, matchGiven, matchReordered, kpc, rpc>>
nvars == <<input, once, twice, npc>>
lvars == <<log>>
bvars ==
    <<storage, writable, achievements, lastUpdated, isLoaded, queue, effects,
      call, nextId, writes>>
vars ==
    <<haystack, needle, occurrences, tpc, resume, job, scored, pc, answers,
      ats, gap, gpc, salary, epc, reordered, matchGiven, matchReordered, kpc,
      rpc, input, once, twice, npc, log, storage, writable, achievements,
      lastUpdated, isLoaded, queue, effects, call, nextId, writes>>

(***************************************************************************)
(* Characters                                                              *)
(***************************************************************************)
Upper == <<"A","B","C","D","E","F","G","H","I","J","K","L","M",
           "N","O","P","Q","R","S","T","U","V","W","X","Y","Z">>
Lower == <<"a","b","c","d","e","f","g","h","i","j","k","l","m",
           "n","o","p","q","r","s","t","u","v","w","x","y","z">>
UpperSet == {Upper[i] : i \in 1..26}
LowerSet == {Lower[i] : i \in 1..26}
DigitSet == {"0","1","2","3","4","5","6","7","8","9"}
WhiteSpace == {" ", "\t", "\n"}

\* String.prototype.toLowerCase on one character
LowerOfUpper == [c \in UpperSet |-> Lower[CHOOSE i \in 1..26 : Upper[i] = c]]
toLowerChar(c) == IF c \in UpperSet THEN LowerOfUpper[c] ELSE c

\* String.prototype.toUpperCase on one character
UpperOfLower == [c \in LowerSet |-> Upper[CHOOSE i \in 1..26 : Lower[i] = c]]
toUpperChar(c) == IF c \in LowerSet THEN UpperOfLower[c] ELSE c

\* the value of a decimal digit
Digits == <<"0","1","2","3","4","5","6","7","8","9">>
digitValue(c) == (CHOOSE i \in 1..10 : Digits[i] = c) - 1

\* the regular expression classes \w, \s and \d
WordChars == LowerSet \cup UpperSet \cup DigitSet \cup {"_"}
IsWordChar(c) == c \in WordChars
IsSpaceChar(c) == c \in WhiteSpace
IsDigit(c) == c \in DigitSet

(***************************************************************************)
(* String primitives                                                       *)
(***************************************************************************)
toLowerCase(s) == [i \in 1..Len(s) |-> toLowerChar(s[i])]

\* String.prototype.trim
RECURSIVE trimStart(_)
trimStart(s) ==
    IF s # <<>> /\ IsSpaceChar(Head(s)) THEN trimStart(Tail(s)) ELSE s
RECURSIVE trimEnd(_)
trimEnd(s) ==
    IF s # <<>> /\ IsSpaceChar(s[Len(s)])
        THEN trimEnd(SubSeq(s, 1, Len(s) - 1)) ELSE s
trim(s) == trimEnd(trimStart(s))

\* s.replace(/[^\w\s]/g, '')
IsWordOrSpace(c) == IsWordChar(c) \/ IsSpaceChar(c)
stripNonWord(s) == SelectSeq(s, IsWordOrSpace)

\* String.prototype.includes
includes(s, sub) ==
    \E p \in 0..(Len(s) - Len(sub)) : SubSeq(s, p + 1, p + Len(sub)) = sub

\* String.prototype.startsWith
startsWith(s, pre) == Len(pre) <= Len(s) /\ SubSeq(s, 1, Len(pre)) = pre

\* Array.prototype.join(' ') over an array of strings
RECURSIVE joinSpace(_)
joinSpace(arr) ==
    IF arr = <<>> THEN <<>>
    ELSE IF Len(arr) = 1 THEN arr[1]
    ELSE arr[1] \o <<" ">> \o joinSpace(Tail(arr))

(***************************************************************************)
(* normalizeKeyword and countKeywordOccurrences                            *)
(***************************************************************************)
\* trim before the punctuation is removed
normalizeKeyword_trimFirst(kw) == stripNonWord(trim(toLowerCase(kw)))

normalizeKeyword(kw) == trim(stripNonWord(toLowerCase(kw)))

\* \b at offset p of t (between t[p] and t[p+1]; offsets run 0..Len(t))
wordBoundary(t, p) ==
    LET before == p >= 1 /\ IsWordChar(t[p])
        after == p < Len(t) /\ IsWordChar(t[p + 1])
    IN  before # after

\* the expression \b<kw> : no boundary required after the keyword
matchAt_noTrailingBoundary(t, kw, p) ==
    /\ p + Len(kw) <= Len(t)
    /\ wordBoundary(t, p)
    /\ \A i \in 1..Len(kw) : toLowerChar(t[p + i]) = toLowerChar(kw[i])

\* the expression \b<kw>\b with flag i matches t at offset p
matchAt(t, kw, p) ==
    /\ p + Len(kw) <= Len(t)
    /\ wordBoundary(t, p)
    /\ \A i \in 1..Len(kw) : toLowerChar(t[p + i]) = toLowerChar(kw[i])
    /\ wordBoundary(t, p + Len(kw))

\* String.prototype.match with flag g: the matches found scanning from
\* lastIndex; after an empty match lastIndex advances by one
RECURSIVE globalMatchCount(_, _, _)
globalMatchCount(t, kw, lastIndex) ==
    LET hits == {p \in lastIndex..Len(t) : matchAt(t, kw, p)}
    IN  IF hits = {} THEN 0
        ELSE LET p == CHOOSE q \in hits : \A r \in hits : q <= r
                 next == IF Len(kw) = 0 THEN p + 1 ELSE p + Len(kw)
             IN  1 + globalMatchCount(t, kw, next)

countKeywordOccurrences(txt, kw) ==
    LET normalizedText == normalizeKeyword(txt)
        normalizedKeyword == normalizeKeyword(kw)
    IN  globalMatchCount(normalizedText, normalizedKeyword, 0)

\* calculateContentQuality: professionalWords
professionalWords ==
    <<<<"e","x","p","e","r","i","e","n","c","e","d">>,
      <<"s","k","i","l","l","e","d">>,
      <<"p","r","o","v","e","n">>,
      <<"e","x","p","e","r","t","i","s","e">>,
      <<"p","r","o","f","i","c","i","e","n","t">>,
      <<"a","c","c","o","m","p","l","i","s","h","e","d">>>>
\* calculateContentQuality: actionVerbs
actionVerbs ==
    <<<<"d","e","v","e","l","o","p","e","d">>,
      <<"i","m","p","l","e","m","e","n","t","e","d">>,
      <<"c","r","e","a","t","e","d">>,
      <<"d","e","s","i","g","n","e","d">>,
      <<"b","u","i","l","t">>,
      <<"l","e","d">>,
      <<"m","a","n","a","g","e","d">>,
      <<"o","p","t","i","m","i","z","e","d">>,
      <<"i","m","p","r","o","v","e","d">>,
      <<"i","n","c","r","e","a","s","e","d">>,
      <<"r","e","d","u","c","e","d">>,
      <<"a","c","h","i","e","v","e","d">>,
      <<"d","e","l","i","v","e","r","e","d">>,
      <<"e","x","e","c","u","t","e","d">>,
      <<"l","a","u","n","c","h","e","d">>,
      <<"e","s","t","a","b","l","i","s","h","e","d">>,
      <<"t","r","a","n","s","f","o","r","m","e","d">>,
      <<"e","n","h","a","n","c","e","d">>,
      <<"s","t","r","e","a","m","l","i","n","e","d">>>>
\* the alternatives (million|thousand|k|m|b) of the metrics expressions
metricUnits ==
    <<<<"m","i","l","l","i","o","n">>,
      <<"t","h","o","u","s","a","n","d">>,
      <<"k">>,
      <<"m">>,
      <<"b">>>>
\* the literal alternatives increased|decreased|reduced|improved
metricWords ==
    <<<<"i","n","c","r","e","a","s","e","d">>,
      <<"d","e","c","r","e","a","s","e","d">>,
      <<"r","e","d","u","c","e","d">>,
      <<"i","m","p","r","o","v","e","d">>>>
\* generateSuggestions adds served|processed to the literal alternatives
suggestionMetricWords ==
    <<<<"i","n","c","r","e","a","s","e","d">>,
      <<"d","e","c","r","e","a","s","e","d">>,
      <<"r","e","d","u","c","e","d">>,
      <<"i","m","p","r","o","v","e","d">>,
      <<"s","e","r","v","e","d">>,
      <<"p","r","o","c","e","s","s","e","d">>>>
\* "by"
w_by ==
    <<"b","y">>
\* "managed"
w_managed ==
    <<"m","a","n","a","g","e","d">>
(***************************************************************************)
(* The tables of skillsGapAnalyzer and salaryEstimator                     *)
(***************************************************************************)
\* areRelatedSkills: relatedSkillsMap, each group as [key, ...related]
relatedSkillsMap ==
    <<<<<<"r","e","a","c","t">>, <<"r","e","a","c","t","j","s">>, <<"r","e","a","c","t",".","j","s">>, <<"r","e","a","c","t"," ","n","a","t","i","v","e">>, <<"r","e","a","c","t","n","a","t","i","v","e">>>>,
      <<<<"n","o","d","e">>, <<"n","o","d","e","j","s">>, <<"n","o","d","e",".","j","s">>>>,
      <<<<"j","a","v","a","s","c","r","i","p","t">>, <<"j","s">>, <<"e","s","6">>, <<"e","s","2","0","1","5">>, <<"e","c","m","a","s","c","r","i","p","t">>>>,
      <<<<"t","y","p","e","s","c","r","i","p","t">>, <<"t","s">>>>,
      <<<<"p","y","t","h","o","n">>, <<"p","y">>, <<"p","y","t","h","o","n","3">>>>,
      <<<<"p","o","s","t","g","r","e","s","q","l">>, <<"p","o","s","t","g","r","e","s">>, <<"p","s","q","l">>>>,
      <<<<"m","o","n","g","o","d","b">>, <<"m","o","n","g","o">>>>,
      <<<<"k","u","b","e","r","n","e","t","e","s">>, <<"k","8","s">>>>,
      <<<<"d","o","c","k","e","r">>, <<"c","o","n","t","a","i","n","e","r","s">>, <<"c","o","n","t","a","i","n","e","r","i","z","a","t","i","o","n">>>>,
      <<<<"a","w","s">>, <<"a","m","a","z","o","n"," ","w","e","b"," ","s","e","r","v","i","c","e","s">>, <<"a","m","a","z","o","n","-","w","e","b","-","s","e","r","v","i","c","e","s">>>>,
      <<<<"g","c","p">>, <<"g","o","o","g","l","e"," ","c","l","o","u","d">>, <<"g","o","o","g","l","e"," ","c","l","o","u","d"," ","p","l","a","t","f","o","r","m">>>>,
      <<<<"a","z","u","r","e">>, <<"m","i","c","r","o","s","o","f","t"," ","a","z","u","r","e">>>>,
      <<<<"c","i","/","c","d">>, <<"c","i","c","d">>, <<"c","o","n","t","i","n","u","o","u","s"," ","i","n","t","e","g","r","a","t","i","o","n">>, <<"c","o","n","t","i","n","u","o","u","s"," ","d","e","p","l","o","y","m","e","n","t">>>>,
      <<<<"r","e","s","t">>, <<"r","e","s","t","f","u","l">>, <<"r","e","s","t"," ","a","p","i">>, <<"r","e","s","t","f","u","l"," ","a","p","i">>>>,
      <<<<"g","r","a","p","h","q","l">>, <<"g","q","l">>>>,
      <<<<"s","q","l">>, <<"m","y","s","q","l">>, <<"p","o","s","t","g","r","e","s","q","l">>, <<"s","q","l","i","t","e">>, <<"m","s","s","q","l">>>>,
      <<<<"n","o","s","q","l">>, <<"m","o","n","g","o","d","b">>, <<"d","y","n","a","m","o","d","b">>, <<"c","a","s","s","a","n","d","r","a">>>>,
      <<<<"g","i","t">>, <<"g","i","t","h","u","b">>, <<"g","i","t","l","a","b">>, <<"b","i","t","b","u","c","k","e","t">>>>,
      <<<<"a","g","i","l","e">>, <<"s","c","r","u","m">>, <<"k","a","n","b","a","n">>>>>>
\* findRelatedExperience: skillRelationships, in the order of its entries
skillRelationships ==
    <<[skill |-> <<"r","e","a","c","t">>,
       related |-> <<<<"j","a","v","a","s","c","r","i","p","t">>, <<"f","r","o","n","t","e","n","d">>, <<"u","i">>, <<"c","o","m","p","o","n","e","n","t">>, <<"v","u","e">>, <<"a","n","g","u","l","a","r">>, <<"w","e","b"," ","d","e","v","e","l","o","p","m","e","n","t">>>>],
      [skill |-> <<"n","o","d","e",".","j","s">>,
       related |-> <<<<"j","a","v","a","s","c","r","i","p","t">>, <<"b","a","c","k","e","n","d">>, <<"e","x","p","r","e","s","s">>, <<"a","p","i">>, <<"s","e","r","v","e","r">>, <<"n","p","m">>>>],
      [skill |-> <<"p","y","t","h","o","n">>,
       related |-> <<<<"s","c","r","i","p","t","i","n","g">>, <<"a","u","t","o","m","a","t","i","o","n">>, <<"d","a","t","a">>, <<"b","a","c","k","e","n","d">>, <<"d","j","a","n","g","o">>, <<"f","l","a","s","k">>>>],
      [skill |-> <<"a","w","s">>,
       related |-> <<<<"c","l","o","u","d">>, <<"i","n","f","r","a","s","t","r","u","c","t","u","r","e">>, <<"d","e","v","o","p","s">>, <<"a","z","u","r","e">>, <<"g","c","p">>, <<"d","e","p","l","o","y","m","e","n","t">>>>],
      [skill |-> <<"d","o","c","k","e","r">>,
       related |-> <<<<"c","o","n","t","a","i","n","e","r","s">>, <<"d","e","v","o","p","s">>, <<"d","e","p","l","o","y","m","e","n","t">>, <<"k","u","b","e","r","n","e","t","e","s">>, <<"o","r","c","h","e","s","t","r","a","t","i","o","n">>>>],
      [skill |-> <<"k","u","b","e","r","n","e","t","e","s">>,
       related |-> <<<<"d","o","c","k","e","r">>, <<"c","o","n","t","a","i","n","e","r","s">>, <<"o","r","c","h","e","s","t","r","a","t","i","o","n">>, <<"d","e","v","o","p","s">>, <<"d","e","p","l","o","y","m","e","n","t">>>>],
      [skill |-> <<"s","q","l">>,
       related |-> <<<<"d","a","t","a","b","a","s","e">>, <<"d","a","t","a">>, <<"q","u","e","r","y">>, <<"m","y","s","q","l">>, <<"p","o","s","t","g","r","e","s","q","l">>, <<"d","a","t","a"," ","m","a","n","a","g","e","m","e","n","t">>>>],
      [skill |-> <<"m","o","n","g","o","d","b">>,
       related |-> <<<<"d","a","t","a","b","a","s","e">>, <<"n","o","s","q","l">>, <<"d","a","t","a">>, <<"j","s","o","n">>, <<"d","o","c","u","m","e","n","t"," ","d","a","t","a","b","a","s","e">>>>],
      [skill |-> <<"t","y","p","e","s","c","r","i","p","t">>,
       related |-> <<<<"j","a","v","a","s","c","r","i","p","t">>, <<"t","y","p","e"," ","s","a","f","e","t","y">>, <<"f","r","o","n","t","e","n","d">>, <<"a","n","g","u","l","a","r">>>>],
      [skill |-> <<"g","r","a","p","h","q","l">>,
       related |-> <<<<"a","p","i">>, <<"r","e","s","t">>, <<"b","a","c","k","e","n","d">>, <<"d","a","t","a"," ","f","e","t","c","h","i","n","g">>, <<"q","u","e","r","y"," ","l","a","n","g","u","a","g","e">>>>],
      [skill |-> <<"j","a","v","a">>,
       related |-> <<<<"o","b","j","e","c","t","-","o","r","i","e","n","t","e","d">>, <<"b","a","c","k","e","n","d">>, <<"e","n","t","e","r","p","r","i","s","e">>, <<"s","p","r","i","n","g">>, <<"j","v","m">>>>],
      [skill |-> <<"m","a","c","h","i","n","e"," ","l","e","a","r","n","i","n","g">>,
       related |-> <<<<"d","a","t","a"," ","s","c","i","e","n","c","e">>, <<"p","y","t","h","o","n">>, <<"s","t","a","t","i","s","t","i","c","s">>, <<"d","a","t","a"," ","a","n","a","l","y","s","i","s">>, <<"a","i">>>>],
      [skill |-> <<"a","g","i","l","e">>,
       related |-> <<<<"p","r","o","j","e","c","t"," ","m","a","n","a","g","e","m","e","n","t">>, <<"s","c","r","u","m">>, <<"t","e","a","m","w","o","r","k">>, <<"s","p","r","i","n","t">>, <<"c","o","l","l","a","b","o","r","a","t","i","o","n">>>>],
      [skill |-> <<"l","e","a","d","e","r","s","h","i","p">>,
       related |-> <<<<"m","a","n","a","g","e","m","e","n","t">>, <<"t","e","a","m"," ","l","e","a","d">>, <<"m","e","n","t","o","r","i","n","g">>, <<"c","o","o","r","d","i","n","a","t","i","o","n">>>>]>>
\* estimateSalary: highDemandSkills
highDemandSkills ==
    <<<<"m","a","c","h","i","n","e"," ","l","e","a","r","n","i","n","g">>,
      <<"a","i">>,
      <<"a","r","t","i","f","i","c","i","a","l"," ","i","n","t","e","l","l","i","g","e","n","c","e">>,
      <<"k","u","b","e","r","n","e","t","e","s">>,
      <<"c","l","o","u","d">>,
      <<"a","w","s">>,
      <<"g","c","p">>,
      <<"a","z","u","r","e">>,
      <<"r","e","a","c","t">>,
      <<"n","o","d","e",".","j","s">>,
      <<"p","y","t","h","o","n">>,
      <<"g","o","l","a","n","g">>,
      <<"r","u","s","t">>,
      <<"d","a","t","a"," ","s","c","i","e","n","c","e">>,
      <<"b","l","o","c","k","c","h","a","i","n">>,
      <<"s","e","c","u","r","i","t","y">>,
      <<"d","e","v","o","p","s">>,
      <<"t","y","p","e","s","c","r","i","p","t">>,
      <<"m","i","c","r","o","s","e","r","v","i","c","e","s">>,
      <<"s","y","s","t","e","m"," ","d","e","s","i","g","n">>>>
\* estimateSalary: industryMultipliers, in hundredths, in the order of its
\* keys
industryMultipliers ==
    <<[key |-> <<"S","o","f","t","w","a","r","e"," ","D","e","v","e","l","o","p","m","e","n","t">>, multiplier |-> 115],
      [key |-> <<"T","e","c","h","n","o","l","o","g","y">>, multiplier |-> 112],
      [key |-> <<"F","i","n","a","n","c","e">>, multiplier |-> 120],
      [key |-> <<"H","e","a","l","t","h","c","a","r","e">>, multiplier |-> 105],
      [key |-> <<"M","a","r","k","e","t","i","n","g">>, multiplier |-> 95],
      [key |-> <<"C","o","n","s","u","l","t","i","n","g">>, multiplier |-> 110],
      [key |-> <<"R","e","t","a","i","l">>, multiplier |-> 85],
      [key |-> <<"M","a","n","u","f","a","c","t","u","r","i","n","g">>, multiplier |-> 90],
      [key |-> <<"E","d","u","c","a","t","i","o","n">>, multiplier |-> 80],
      [key |-> <<"G","o","v","e","r","n","m","e","n","t">>, multiplier |-> 85],
      [key |-> <<"d","e","f","a","u","l","t">>, multiplier |-> 100]>>

(***************************************************************************)
(* JavaScript values                                                       *)
(*                                                                         *)
(* resumeContent: [kind, summary, experience, skills, education,           *)
(*   additionalSections]; kind is what typeof and the truth test see.      *)
(* An experience entry: [isNull, company, role, bullets].                  *)
(* skills: one optional array per category name.                           *)
(* jobAnalysis: [kind, atsKeywords, requiredSkills, ...]; an atsKeywords   *)
(* element: [isNull, keyword, frequency].                                  *)
(***************************************************************************)
Undefined == <<>>
Some(v) == <<v>>
Has(o) == o # <<>>
Get(o) == o[1]

\* if (x) for an optional string: defined and not ''
Truthy(o) == Has(o) /\ Get(o) # <<>>

\* x || [] and Array.isArray(x) ? x : nothing, for an optional array
OrEmpty(o) == IF Has(o) THEN Get(o) ELSE <<>>

\* !x || typeof x !== 'object'
NotAnObject(v) == v.kind \notin {"object", "array"}

\* a skills object without any category: {}
noSkills ==
    [technical |-> Undefined, soft |-> Undefined, tools |-> Undefined,
     languages |-> Undefined, frameworks |-> Undefined,
     databases |-> Undefined, cloud |-> Undefined, other |-> Undefined]

RECURSIVE concatAll(_)
concatAll(strs) ==
    IF strs = <<>> THEN <<>> ELSE Head(strs) \o concatAll(Tail(strs))

RECURSIVE SumSeq(_)
SumSeq(ns) == IF ns = <<>> THEN 0 ELSE Head(ns) + SumSeq(Tail(ns))

Min(a, b) == IF a <= b THEN a ELSE b
Max(a, b) == IF a >= b THEN a ELSE b

\* Math.round(num / den) for num >= 0, den > 0: halves round up
RoundDiv(num, den) == (2 * num + den) \div (2 * den)

(***************************************************************************)
(* extractResumeText                                                       *)
(***************************************************************************)
\* if (x) text += x + ' '
addIfTruthy(o) == IF Truthy(o) THEN Get(o) \o <<" ">> ELSE <<>>

\* if (Array.isArray(arr)) text += arr.join(' ') + ' '
addJoined(o) == IF Has(o) THEN joinSpace(Get(o)) \o <<" ">> ELSE <<>>

experienceText(exp) ==
    addIfTruthy(exp.company) \o addIfTruthy(exp.role)
    \o (IF Has(exp.bullets)
            THEN concatAll([i \in 1..Len(Get(exp.bullets)) |->
                                Get(exp.bullets)[i] \o <<" ">>])
            ELSE <<>>)

skillsText(skills) ==
    addJoined(skills.technical) \o addJoined(skills.soft)
    \o addJoined(skills.tools)

educationText(edu) ==
    addIfTruthy(edu.degree) \o addIfTruthy(edu.institution)
    \o addIfTruthy(edu.details)

sectionText(section) == addIfTruthy(section.title) \o addJoined(section.items)

\* reading exp.company of a null or undefined element is a TypeError
extractThrows(resumeContent) ==
    \E i \in 1..Len(OrEmpty(resumeContent.experience)) :
        Get(resumeContent.experience)[i].isNull

\* text += resumeContent.summary + ' ' without the test of line 10
summaryText_unguarded(resumeContent) ==
    IF Has(resumeContent.summary) THEN addIfTruthy(resumeContent.summary)
    ELSE <<"u", "n", "d", "e", "f", "i", "n", "e", "d", " ">>

\* if (resumeContent.summary && typeof resumeContent.summary === 'string')
\*     text += resumeContent.summary + ' '
summaryText(resumeContent) == addIfTruthy(resumeContent.summary)

\* the text added after the summary: experience, skills, education,
\* additional sections, in this order
sectionsText(resumeContent) ==
    LET experience == OrEmpty(resumeContent.experience)
        education == OrEmpty(resumeContent.education)
        sections == OrEmpty(resumeContent.additionalSections)
    IN  concatAll([i \in 1..Len(experience) |->
                       experienceText(experience[i])])
        \o (IF Has(resumeContent.skills)
                THEN skillsText(Get(resumeContent.skills)) ELSE <<>>)
        \o concatAll([i \in 1..Len(education) |->
                          educationText(education[i])])
        \o concatAll([i \in 1..Len(sections) |-> sectionText(sections[i])])

extractResumeText(resumeContent) ==
    trim(toLowerCase(summaryText(resumeContent)
                     \o sectionsText(resumeContent)))

(***************************************************************************)
(* calculateKeywordMatch                                                   *)
(***************************************************************************)
\* kwObj.keyword of a null element, or undefined.toLowerCase(), is a
\* TypeError
keywordMatchThrows(atsKeywords) ==
    \E i \in 1..Len(atsKeywords) :
        atsKeywords[i].isNull \/ ~Has(atsKeywords[i].keyword)

\* kwObj.frequency || 1
frequencyOf(kwObj) ==
    IF Has(kwObj.frequency) /\ Get(kwObj.frequency) # 0
        THEN Get(kwObj.frequency) ELSE 1

keywordCountsOf(resumeText, atsKeywords) ==
    {<<atsKeywords[i].keyword[1],
       countKeywordOccurrences(resumeText, atsKeywords[i].keyword[1])>> :
        i \in 1..Len(atsKeywords)}

\* the keyword property of each element, in order
keywordsOf(atsKeywords) ==
    [i \in 1..Len(atsKeywords) |-> Get(atsKeywords[i].keyword)]

\* the keywords pushed to missingKeywords: those with count 0
missingKeywordsOf(resumeText, atsKeywords) ==
    SelectSeq(keywordsOf(atsKeywords),
              LAMBDA keyword :
                  countKeywordOccurrences(resumeText, keyword) = 0)

\* Math.min(count, 3) * frequency, for the keywords with count > 0
OccurrenceCap == 3
matchWeight(resumeText, kwObj) ==
    LET cnt == countKeywordOccurrences(resumeText, Get(kwObj.keyword))
    IN  IF cnt > 0 THEN Min(cnt, OccurrenceCap) * frequencyOf(kwObj) ELSE 0

\* the score without Math.min(100, ...)
keywordScore_uncapped(matchedWeight, totalWeight) ==
    IF totalWeight > 0 THEN RoundDiv(matchedWeight * 10000, totalWeight)
    ELSE 0

\* Math.min(100, Math.round(score * 100) / 100), in hundredths
keywordScore(matchedWeight, totalWeight) ==
    IF totalWeight > 0
        THEN Min(10000, RoundDiv(matchedWeight * 10000, totalWeight))
        ELSE 0

emptyKeywordMatch == [score |-> 0, missingKeywords |-> <<>>, keywordCounts |-> {}]

\* the loop left at the first keyword that does not occur: only the
\* keywords found before it add to matchedWeight
RECURSIVE leadingMatchWeight(_, _)
leadingMatchWeight(resumeText, atsKeywords) ==
    IF atsKeywords = <<>> THEN 0
    ELSE IF matchWeight(resumeText, Head(atsKeywords)) = 0 THEN 0
    ELSE matchWeight(resumeText, Head(atsKeywords))
         + leadingMatchWeight(resumeText, Tail(atsKeywords))
weightedKeywordMatch_untilFirstMiss(resumeText, atsKeywords) ==
    LET totalWeight ==
            SumSeq([i \in 1..Len(atsKeywords) |-> frequencyOf(atsKeywords[i])])
    IN  [score |-> keywordScore(leadingMatchWeight(resumeText, atsKeywords),
                                totalWeight),
         missingKeywords |-> missingKeywordsOf(resumeText, atsKeywords),
         keywordCounts |-> keywordCountsOf(resumeText, atsKeywords)]

weightedKeywordMatch(resumeText, atsKeywords) ==
    LET totalWeight ==
            SumSeq([i \in 1..Len(atsKeywords) |-> frequencyOf(atsKeywords[i])])
        matchedWeight ==
            SumSeq([i \in 1..Len(atsKeywords) |->
                        matchWeight(resumeText, atsKeywords[i])])
    IN  [score |-> keywordScore(matchedWeight, totalWeight),
         missingKeywords |-> missingKeywordsOf(resumeText, atsKeywords),
         keywordCounts |-> keywordCountsOf(resumeText, atsKeywords)]

\* an empty list scored as full marks
calculateKeywordMatch_empty100(resumeText, atsKeywords) ==
    IF atsKeywords = <<>> THEN [emptyKeywordMatch EXCEPT !.score = 10000]
    ELSE weightedKeywordMatch(resumeText, atsKeywords)

calculateKeywordMatch(resumeText, atsKeywords) ==
    IF atsKeywords = <<>> THEN emptyKeywordMatch
    ELSE weightedKeywordMatch(resumeText, atsKeywords)

\* a calculateKeywordMatch call that ended in an exception
KeywordMatchThrew == [status |-> "threw", result |-> emptyKeywordMatch]

\* how a call of calculateKeywordMatch ends
keywordMatchOutcome(resumeText, atsKeywords) ==
    IF keywordMatchThrows(atsKeywords) THEN KeywordMatchThrew
    ELSE [status |-> "returned",
          result |-> calculateKeywordMatch(resumeText, atsKeywords)]

(***************************************************************************)
(* calculateSkillsCoverage                                                 *)
(***************************************************************************)
\* arr.some(s => normalizeKeyword(s) === n || normalizeKeyword(s).includes(n)
\*                || n.includes(normalizeKeyword(s)))
someOverlaps(arr, normalizedSkill) ==
    \E i \in 1..Len(arr) :
        LET s == normalizeKeyword(arr[i])
        IN  s = normalizedSkill \/ includes(s, normalizedSkill)
            \/ includes(normalizedSkill, s)

\* resumeContent.skills?.<category> reads the category of the skills
\* object, and undefined when there is no skills object
skillsOrNone(resumeContent) ==
    IF Has(resumeContent.skills) THEN Get(resumeContent.skills) ELSE noSkills

skillFound(resumeContent, normalizedResumeText, skill) ==
    LET normalizedSkill == normalizeKeyword(skill)
        technical == skillsOrNone(resumeContent).technical
        tools == skillsOrNone(resumeContent).tools
    IN  \/ includes(normalizedResumeText, normalizedSkill)
        \/ Has(technical) /\ someOverlaps(Get(technical), normalizedSkill)
        \/ Has(tools) /\ someOverlaps(Get(tools), normalizedSkill)

\* Math.round(score * 100) / 100 of found / required * 100, in hundredths
coverageScore(nFound, nRequired) == RoundDiv(nFound * 10000, nRequired)

emptySkillsCoverage == [score |-> 10000, missingSkills |-> <<>>, foundSkills |-> <<>>]

checkedSkillsCoverage(resumeContent, requiredSkills) ==
    LET normalizedResumeText ==
            normalizeKeyword(extractResumeText(resumeContent))
        IsFound(skill) == skillFound(resumeContent, normalizedResumeText, skill)
        IsMissing(skill) == ~IsFound(skill)
        foundSkills == SelectSeq(requiredSkills, IsFound)
    IN  [score |-> coverageScore(Len(foundSkills), Len(requiredSkills)),
         missingSkills |-> SelectSeq(requiredSkills, IsMissing),
         foundSkills |-> foundSkills]

\* an empty list scored as zero
calculateSkillsCoverage_empty0(resumeContent, requiredSkills) ==
    IF requiredSkills = <<>> THEN [emptySkillsCoverage EXCEPT !.score = 0]
    ELSE checkedSkillsCoverage(resumeContent, requiredSkills)

calculateSkillsCoverage(resumeContent, requiredSkills) ==
    IF requiredSkills = <<>> THEN emptySkillsCoverage
    ELSE checkedSkillsCoverage(resumeContent, requiredSkills)

(***************************************************************************)
(* calculateContentQuality                                                 *)
(***************************************************************************)
SentenceMarks == {".", "!", "?"}

\* (summary.match(/[.!?]+/g) || []).length: the maximal runs of marks
sentenceCount(summary) ==
    Cardinality({i \in 1..Len(summary) :
                    /\ summary[i] \in SentenceMarks
                    /\ (i = 1 \/ summary[i - 1] \notin SentenceMarks)})

containsAny(s, words) == \E i \in 1..Len(words) : includes(s, words[i])

SummaryLengthMin == 50
summaryPoints(summary) ==
    LET n == sentenceCount(summary)
    IN  (IF n >= 2 /\ n <= 3 THEN 10 ELSE IF n >= 1 /\ n <= 4 THEN 5 ELSE 0)
        + (IF Len(summary) > SummaryLengthMin THEN 10 ELSE 0)
        + (IF containsAny(toLowerCase(summary), professionalWords)
               THEN 5 ELSE 0)

\* \d+% and \$\d+
hasDigitThen(b, c) ==
    \E i \in 1..(Len(b) - 1) : IsDigit(b[i]) /\ b[i + 1] = c
hasThenDigit(b, c) ==
    \E i \in 1..(Len(b) - 1) : b[i] = c /\ IsDigit(b[i + 1])

\* the word w (flag i) starts at index j of b
wordAt(b, w, j) ==
    j >= 1 /\ j + Len(w) - 1 <= Len(b)
    /\ toLowerCase(SubSeq(b, j, j + Len(w) - 1)) = w

\* \d+\s*(million|thousand|k|m|b)
hasDigitUnit(b) ==
    \E i \in 1..Len(b) : \E j \in (i + 1)..Len(b) :
        /\ IsDigit(b[i])
        /\ \A k \in (i + 1)..(j - 1) : IsSpaceChar(b[k])
        /\ \E u \in 1..Len(metricUnits) : wordAt(b, metricUnits[u], j)

\* <w>\s+\d+
hasWordSpaceDigit(b, w) ==
    \E i \in 1..Len(b) : \E j \in (i + Len(w) + 1)..Len(b) :
        /\ wordAt(b, w, i)
        /\ \A k \in (i + Len(w))..(j - 1) : IsSpaceChar(b[k])
        /\ IsDigit(b[j])

\* /\d+%|\$\d+|\d+\s*(million|thousand|k|m|b)|increased|decreased|reduced
\*  |improved|by\s+\d+/i.test(bullet)
hasMetrics(bullet) ==
    \/ hasDigitThen(bullet, "%")
    \/ hasThenDigit(bullet, "$")
    \/ hasDigitUnit(bullet)
    \/ containsAny(toLowerCase(bullet), metricWords)
    \/ hasWordSpaceDigit(bullet, w_by)

\* actionVerbs.some(verb => bulletLower.startsWith(verb)
\*                          || bulletLower.includes(` ${verb}`))
hasActionVerb(bullet) ==
    LET bulletLower == toLowerCase(bullet)
    IN  \E v \in 1..Len(actionVerbs) :
            \/ startsWith(bulletLower, actionVerbs[v])
            \/ includes(bulletLower, <<" ">> \o actionVerbs[v])

\* every bullet of every experience entry, in order
allBullets(experience) ==
    concatAll([i \in 1..Len(experience) |-> OrEmpty(experience[i].bullets)])

\* tier points of one skills category
tierPoints(n, hi, hiPoints, lo, loPoints) ==
    IF n >= hi THEN hiPoints ELSE IF n >= lo THEN loPoints ELSE 0

skillsPoints(skills) ==
    tierPoints(Len(OrEmpty(skills.technical)), 5, 10, 3, 5)
    + tierPoints(Len(OrEmpty(skills.soft)), 3, 5, 1, 2)
    + tierPoints(Len(OrEmpty(skills.tools)), 2, 5, 1, 2)

MetricsPoints == 20
ActionVerbPoints == 15
MultipleEntriesBonus == 5
EducationPoints == 10
AdditionalPoints == 5

\* the score in hundredths: Math.round(normalizedScore * 100) / 100
calculateContentQuality(resumeContent) ==
    LET experience == OrEmpty(resumeContent.experience)
        bullets == allBullets(experience)
        totalBullets == Len(bullets)
        bulletsWithMetrics == Len(SelectSeq(bullets, hasMetrics))
        bulletsWithActionVerbs == Len(SelectSeq(bullets, hasActionVerb))
        \* the points that are whole numbers
        whole ==
            (IF Truthy(resumeContent.summary)
                 THEN summaryPoints(Get(resumeContent.summary)) ELSE 0)
            + (IF totalBullets > 0 /\ Len(experience) >= 2
                   THEN MultipleEntriesBonus ELSE 0)
            + (IF Has(resumeContent.skills)
                   THEN skillsPoints(Get(resumeContent.skills)) ELSE 0)
            + (IF OrEmpty(resumeContent.education) # <<>>
                   THEN EducationPoints ELSE 0)
            + (IF OrEmpty(resumeContent.additionalSections) # <<>>
                   THEN AdditionalPoints ELSE 0)
        \* metricsRatio * 20 + actionVerbRatio * 15, times totalBullets
        ratioTimesTotal ==
            bulletsWithMetrics * MetricsPoints
            + bulletsWithActionVerbs * ActionVerbPoints
    IN  IF totalBullets > 0
            THEN RoundDiv((whole * totalBullets + ratioTimesTotal) * 100,
                          totalBullets)
            ELSE whole * 100

(***************************************************************************)
(* detectKeywordStuffing                                                   *)
(***************************************************************************)
StuffingThreshold == 5
\* detectKeywordStuffing flagging a keyword from 5 occurrences on (>= 5)
detectKeywordStuffing_fromFive(resumeText, atsKeywords) ==
    SelectSeq(keywordsOf(atsKeywords),
              LAMBDA keyword :
                  countKeywordOccurrences(resumeText, keyword)
                      >= StuffingThreshold)

detectKeywordStuffing(resumeText, atsKeywords) ==
    SelectSeq(keywordsOf(atsKeywords),
              LAMBDA keyword :
                  countKeywordOccurrences(resumeText, keyword)
                      > StuffingThreshold)

(***************************************************************************)
(* generateSuggestions                                                     *)
(*                                                                         *)
(* A suggestion is [id, names, n, of]: id stands for the fixed wording,    *)
(* names for the list joined into it, n and of for the two numbers of the  *)
(* bullets suggestion.                                                     *)
(***************************************************************************)
Suggestion(id, names) == [id |-> id, names |-> names, n |-> 0, of |-> 0]
Plain(id) == Suggestion(id, <<>>)

\* arr.slice(0, n)
slice0(arr, n) == SubSeq(arr, 1, Min(n, Len(arr)))

\* the metrics expression of generateSuggestions: that of
\* calculateContentQuality plus served|processed|managed\s+\d+
hasMetricsForSuggestion(bullet) ==
    \/ hasDigitThen(bullet, "%")
    \/ hasThenDigit(bullet, "$")
    \/ hasDigitUnit(bullet)
    \/ containsAny(toLowerCase(bullet), suggestionMetricWords)
    \/ hasWordSpaceDigit(bullet, w_by)
    \/ hasWordSpaceDigit(bullet, w_managed)

lacksMetrics(bullet) == ~hasMetricsForSuggestion(bullet)

CriticalBelow == 7500
KeywordSoftBelow == 8500
SkillsSoftBelow == 9000
ContentBelow == 7500
CriticalNames == 8
SoftNames == 3
SummaryShortBelow == 100
RestructureBelow == 60
GoodBelow == 80
TechnicalSkillsMin == 5

\* the keyword suggestions without the message that names the keywords
keywordSuggestions_unnamed(scores) ==
    IF scores.keywordMatchScore < CriticalBelow
        THEN <<Plain("keywordsIncorporate")>>
    ELSE <<>>

\* keywordSuggestions with the critical tier naming 3 keywords, as the softer
\* tier does, instead of 8
keywordSuggestions_threeNames(scores) ==
    IF scores.keywordMatchScore < CriticalBelow
        THEN (IF Len(scores.missingKeywords) > 0
                  THEN <<Suggestion("keywordsCritical",
                             slice0(scores.missingKeywords, SoftNames))>>
                  ELSE <<>>)
             \o <<Plain("keywordsIncorporate")>>
    ELSE IF scores.keywordMatchScore < KeywordSoftBelow
                /\ Len(scores.missingKeywords) > 0
        THEN <<Suggestion("keywordsRemaining",
                   slice0(scores.missingKeywords, SoftNames))>>
    ELSE <<>>

keywordSuggestions(scores) ==
    IF scores.keywordMatchScore < CriticalBelow
        THEN (IF Len(scores.missingKeywords) > 0
                  THEN <<Suggestion("keywordsCritical",
                             slice0(scores.missingKeywords, CriticalNames))>>
                  ELSE <<>>)
             \o <<Plain("keywordsIncorporate")>>
    ELSE IF scores.keywordMatchScore < KeywordSoftBelow
                /\ Len(scores.missingKeywords) > 0
        THEN <<Suggestion("keywordsRemaining",
                   slice0(scores.missingKeywords, SoftNames))>>
    ELSE <<>>

skillsSuggestions(scores) ==
    IF scores.skillsCoverageScore < CriticalBelow
        THEN (IF Len(scores.missingSkills) > 0
                  THEN <<Suggestion("skillsImportant",
                             slice0(scores.missingSkills, CriticalNames))>>
                  ELSE <<>>)
             \o <<Plain("skillsEnsureAll")>>
    ELSE IF scores.skillsCoverageScore < SkillsSoftBelow
                /\ Len(scores.missingSkills) > 0
        THEN <<Suggestion("skillsConsider",
                   slice0(scores.missingSkills, SoftNames))>>
    ELSE <<>>

contentSuggestions(scores, resumeContent) ==
    LET bullets == allBullets(OrEmpty(resumeContent.experience))
        totalBullets == Len(bullets)
        bulletsWithoutMetrics == Len(SelectSeq(bullets, lacksMetrics))
    IN  IF scores.contentQualityScore < ContentBelow
            THEN (IF bulletsWithoutMetrics > 0 /\ totalBullets > 0
                      THEN <<[id |-> "bulletsLackMetrics", names |-> <<>>,
                              n |-> bulletsWithoutMetrics,
                              of |-> totalBullets]>>
                      ELSE <<>>)
                 \o <<Plain("startWithActionVerb")>>
                 \o (IF ~Truthy(resumeContent.summary)
                        \/ Len(Get(resumeContent.summary)) < SummaryShortBelow
                         THEN <<Plain("expandSummary")>> ELSE <<>>)
            ELSE <<>>

stuffingSuggestions(scores) ==
    IF Len(scores.stuffedKeywords) > 0
        THEN <<Suggestion("stuffingWarning", scores.stuffedKeywords)>>
        ELSE <<>>

generalSuggestions(scores) ==
    IF scores.overallScore < RestructureBelow THEN <<Plain("restructure")>>
    ELSE IF scores.overallScore < GoodBelow THEN <<Plain("goodButImprove")>>
    ELSE <<Plain("greatJob")>>

skillsSectionSuggestions(resumeContent) ==
    IF Has(resumeContent.skills)
       /\ Len(OrEmpty(Get(resumeContent.skills).technical)) < TechnicalSkillsMin
        THEN <<Plain("addTechnicalSkills")>> ELSE <<>>

generateSuggestions(scores, resumeContent) ==
    keywordSuggestions(scores)
    \o skillsSuggestions(scores)
    \o contentSuggestions(scores, resumeContent)
    \o stuffingSuggestions(scores)
    \o generalSuggestions(scores)
    \o skillsSectionSuggestions(resumeContent)

(***************************************************************************)
(* scoreResume                                                             *)
(***************************************************************************)
KeywordWeight == 50
SkillsWeight == 30
ContentWeight == 20

\* the weights of the comments on lines 494, 500 and 506 (40%, 35%, 25%)
weightedOverall_40_35_25(keywordScoreH, skillsScoreH, contentScoreH) ==
    RoundDiv(keywordScoreH * 40 + skillsScoreH * 35 + contentScoreH * 25,
             10000)

\* Math.round(keyword * 0.50 + skills * 0.30 + content * 0.20), the three
\* scores given in hundredths
weightedOverall(keywordScoreH, skillsScoreH, contentScoreH) ==
    RoundDiv(keywordScoreH * KeywordWeight + skillsScoreH * SkillsWeight
                 + contentScoreH * ContentWeight,
             10000)

\* Math.max(0, Math.min(100, overallScore))
clampScore(overallScore) == Max(0, Min(100, overallScore))

emptyReport ==
    [overallScore |-> 0, keywordMatchScore |-> 0, skillsCoverageScore |-> 0,
     contentQualityScore |-> 0, missingKeywords |-> <<>>,
     missingSkills |-> <<>>, suggestions |-> <<>>]

\* a call that ended in an exception
Threw(error) ==
    [status |-> "threw", error |-> error, resumeText |-> <<>>,
     keywordMatch |-> emptyKeywordMatch, skillsCoverage |-> emptySkillsCoverage,
     stuffedKeywords |-> <<>>, report |-> emptyReport]

\* the body of scoreResume after the two argument checks and the reads
\* that can fail
scoreBody(resumeContent, jobAnalysis) ==
    LET atsKeywords == OrEmpty(jobAnalysis.atsKeywords)
        requiredSkills == OrEmpty(jobAnalysis.requiredSkills)
        resumeText == extractResumeText(resumeContent)
        keywordMatch == calculateKeywordMatch(resumeText, atsKeywords)
        skillsCoverage == calculateSkillsCoverage(resumeContent, requiredSkills)
        contentQualityScore == calculateContentQuality(resumeContent)
        stuffedKeywords == detectKeywordStuffing(resumeText, atsKeywords)
        overallScore == weightedOverall(keywordMatch.score, skillsCoverage.score,
                                        contentQualityScore)
        suggestions ==
            generateSuggestions(
                [keywordMatchScore |-> keywordMatch.score,
                 skillsCoverageScore |-> skillsCoverage.score,
                 contentQualityScore |-> contentQualityScore,
                 overallScore |-> overallScore,
                 missingKeywords |-> keywordMatch.missingKeywords,
                 missingSkills |-> skillsCoverage.missingSkills,
                 stuffedKeywords |-> stuffedKeywords],
                resumeContent)
    IN  [status |-> "returned", error |-> "", resumeText |-> resumeText,
         keywordMatch |-> keywordMatch, skillsCoverage |-> skillsCoverage,
         stuffedKeywords |-> stuffedKeywords,
         report |->
            [overallScore |-> clampScore(overallScore),
             keywordMatchScore |-> keywordMatch.score,
             skillsCoverageScore |-> skillsCoverage.score,
             contentQualityScore |-> contentQualityScore,
             missingKeywords |-> keywordMatch.missingKeywords,
             missingSkills |-> skillsCoverage.missingSkills,
             suggestions |-> suggestions]]

\* scoreResume as it would be if the suggestions array lived at module level
\* and were never reset: each report carries on from the previous report's
\* suggestions
scoreResume_sharedSuggestions(resumeContent, jobAnalysis) ==
    LET own == IF NotAnObject(resumeContent)
                    THEN Threw("resumeContent must be a valid object")
               ELSE IF NotAnObject(jobAnalysis)
                    THEN Threw("jobAnalysis must be a valid object")
               ELSE IF extractThrows(resumeContent) THEN Threw("TypeError")
               ELSE IF keywordMatchThrows(OrEmpty(jobAnalysis.atsKeywords))
                    THEN Threw("TypeError")
               ELSE scoreBody(resumeContent, jobAnalysis)
        earlier == SelectSeq(log, LAMBDA c : c.fn = "scoreResume")
    IN  IF earlier = <<>> \/ own.status # "returned" THEN own
        ELSE [own EXCEPT !.report.suggestions =
                    earlier[Len(earlier)].result.report.suggestions \o @]

scoreResume(resumeContent, jobAnalysis) ==
    IF NotAnObject(resumeContent)
        THEN Threw("resumeContent must be a valid object")
    ELSE IF NotAnObject(jobAnalysis)
        THEN Threw("jobAnalysis must be a valid object")
    ELSE IF extractThrows(resumeContent) THEN Threw("TypeError")
    ELSE IF keywordMatchThrows(OrEmpty(jobAnalysis.atsKeywords))
        THEN Threw("TypeError")
    ELSE scoreBody(resumeContent, jobAnalysis)

(***************************************************************************)
(* skillsGapAnalyzer                                                       *)
(*                                                                         *)
(* userAnswers: [kind, entries]; entries are the object's own properties   *)
(* in insertion order, each [key, isString, str, num] (a string value in   *)
(* str, a number value in num).                                            *)
(***************************************************************************)
\* Object.values(userAnswers || {}).filter(v => typeof v === 'string')
\*     .join(' ').toLowerCase()
userExperienceTextOf(userAnswers) ==
    LET strings == SelectSeq(userAnswers.entries, LAMBDA e : e.isString)
    IN  toLowerCase(joinSpace([i \in 1..Len(strings) |-> strings[i].str]))

\* the Set resumeSkills: the lower-cased, trimmed entries of the categories
\* languages, frameworks, databases, cloud and tools
resumeSkillsOf(resumeContent) ==
    LET skillCategories ==
            skillsOrNone(resumeContent)
        allResumeSkills ==
            OrEmpty(skillCategories.languages)
            \o OrEmpty(skillCategories.frameworks)
            \o OrEmpty(skillCategories.databases)
            \o OrEmpty(skillCategories.cloud)
            \o OrEmpty(skillCategories.tools)
    IN  {trim(toLowerCase(allResumeSkills[i])) : i \in 1..Len(allResumeSkills)}

areRelatedSkills(skill1, skill2) ==
    \E g \in 1..Len(relatedSkillsMap) :
        LET allVariants == {relatedSkillsMap[g][i] :
                                i \in 1..Len(relatedSkillsMap[g])}
        IN  skill1 \in allVariants /\ skill2 \in allVariants

\* isMatched of the requiredSkills loop
skillIsMatched(resumeSkills, userExperienceText, skill) ==
    LET skillLower == trim(toLowerCase(skill))
    IN  \/ skillLower \in resumeSkills
        \/ \E rs \in resumeSkills :
               \/ includes(rs, skillLower)
               \/ includes(skillLower, rs)
               \/ areRelatedSkills(rs, skillLower)
        \/ includes(userExperienceText, skillLower)

\* a hint of findRelatedExperience; company and source are set for a hint
\* that comes from a bullet (exp.company, exp.role)
Hint(concept, fromBullet, company, source) ==
    [concept |-> concept, fromBullet |-> fromBullet, company |-> company,
     source |-> source]

\* lines 206-217: the concepts of the matching table entries that the user's
\* text mentions, in table order, repeats kept
textHints(missingSkillLower, userExperience) ==
    concatAll([e \in 1..Len(skillRelationships) |->
        LET skill == skillRelationships[e].skill
            related == skillRelationships[e].related
        IN  IF includes(missingSkillLower, skill)
               \/ includes(skill, missingSkillLower)
            THEN LET mentioned ==
                         SelectSeq(related,
                                   LAMBDA c : includes(userExperience, c))
                 IN  [i \in 1..Len(mentioned) |->
                          Hint(mentioned[i], FALSE, Undefined, Undefined)]
            ELSE <<>>])

\* lines 220-238: for one bullet, the concepts of the table entries whose
\* skill the missing skill contains and that the bullet mentions
bulletCandidates(missingSkillLower, exp, bullet) ==
    LET bulletLower == toLowerCase(bullet)
    IN  concatAll([e \in 1..Len(skillRelationships) |->
            LET skill == skillRelationships[e].skill
                related == skillRelationships[e].related
            IN  IF includes(missingSkillLower, skill)
                THEN LET mentioned ==
                             SelectSeq(related,
                                       LAMBDA c : includes(bulletLower, c))
                     IN  [i \in 1..Len(mentioned) |->
                              Hint(mentioned[i], TRUE, exp.company, exp.role)]
                ELSE <<>>])

experienceCandidates(missingSkillLower, experience) ==
    concatAll([x \in 1..Len(experience) |->
        LET bullets == OrEmpty(experience[x].bullets)
        IN  concatAll([b \in 1..Len(bullets) |->
                bulletCandidates(missingSkillLower, experience[x],
                                 bullets[b])])])

\* !relatedExperience.some(r => r.concept === concept), candidate by
\* candidate
RECURSIVE pushUnlessPresent(_, _)
pushUnlessPresent(relatedExperience, candidates) ==
    IF candidates = <<>> THEN relatedExperience
    ELSE LET c == Head(candidates)
             present == \E i \in 1..Len(relatedExperience) :
                            relatedExperience[i].concept = c.concept
         IN  pushUnlessPresent(
                 IF present THEN relatedExperience
                 ELSE Append(relatedExperience, c),
                 Tail(candidates))

RelatedExperienceMax == 3

findRelatedExperience(missingSkill, userAnswers, resumeContent) ==
    LET missingSkillLower == toLowerCase(missingSkill)
        userExperience == userExperienceTextOf(userAnswers)
        relatedExperience ==
            pushUnlessPresent(
                textHints(missingSkillLower, userExperience),
                experienceCandidates(missingSkillLower,
                                     OrEmpty(resumeContent.experience)))
    IN  slice0(relatedExperience, RelatedExperienceMax)

\* the two texts of generateRecommendation: which one, and the concept named
generateRecommendation(skill, relatedExperience) ==
    IF relatedExperience # <<>>
        THEN [id |-> "highlightRelated",
              concept |-> Some(relatedExperience[1].concept)]
    ELSE [id |-> "takeCourse", concept |-> Undefined]

\* an element of missingSkills; relatedExperience null is Undefined
missingSkillEntry(skill, userAnswers, resumeContent) ==
    LET relatedExperience ==
            findRelatedExperience(skill, userAnswers, resumeContent)
    IN  [skill |-> skill,
         relatedExperience |->
            IF Len(relatedExperience) > 0 THEN Some(relatedExperience)
            ELSE Undefined,
         recommendation |-> generateRecommendation(skill, relatedExperience)]

\* isMatched of the preferredQualifications loop
qualificationIsMatched(resumeSkills, userExperienceText, qual) ==
    LET qualLower == toLowerCase(qual)
    IN  \/ includes(userExperienceText, qualLower)
        \/ \E skill \in resumeSkills : includes(qualLower, skill)

\* length > 0 ? Math.round(matched / length * 100) : 100
matchPercentage(nMatched, nAll) ==
    IF nAll > 0 THEN RoundDiv(nMatched * 100, nAll) ELSE 100

SkillShare == 7
QualificationShare == 3

\* the two shares exchanged: 0.3 for the skills, 0.7 for the qualifications
overallMatch_sharesExchanged(skillMatchPercentage, qualMatchPercentage) ==
    RoundDiv(skillMatchPercentage * QualificationShare
                 + qualMatchPercentage * SkillShare,
             10)

\* Math.round(skillMatchPercentage * 0.7 + qualMatchPercentage * 0.3).
\* The sum is exact here; the sum of doubles falls just below a half for
\* some pairs that need lists of 7 or more entries (29 and 14 give 24,
\* where 20.3 + 4.2 is 24.5), which the bounded lists do not reach.
overallMatch(skillMatchPercentage, qualMatchPercentage) ==
    RoundDiv(skillMatchPercentage * SkillShare
                 + qualMatchPercentage * QualificationShare,
             10)

Recommendation(priority, type, names, industry) ==
    [priority |-> priority, type |-> type, names |-> names,
     industry |-> industry]

NamedInShortList == 2
NamedInLongList == 3

generateOverallRecommendations(missingSkills, missingQualifications, jobAnalysis) ==
    LET skillNames(entries) == [i \in 1..Len(entries) |-> entries[i].skill]
        criticalMissing ==
            SelectSeq(missingSkills, LAMBDA s : ~Has(s.relatedExperience))
        transferable ==
            SelectSeq(missingSkills, LAMBDA s : Has(s.relatedExperience))
        skillGap ==
            IF Len(criticalMissing) > 0
               /\ Len(criticalMissing) <= NamedInShortList
                THEN <<Recommendation("high", "skill_gap",
                                      skillNames(criticalMissing), Undefined)>>
            ELSE IF Len(criticalMissing) > NamedInShortList
                THEN <<Recommendation("high", "skill_gap",
                           skillNames(slice0(criticalMissing, NamedInLongList)),
                           Undefined)>>
            ELSE <<>>
        related ==
            IF Len(transferable) > 0
                THEN <<Recommendation("medium", "transferable",
                                      skillNames(transferable), Undefined)>>
            ELSE <<>>
        qualification ==
            IF Len(missingQualifications) > 0
               /\ Len(missingQualifications) <= NamedInShortList
                THEN <<Recommendation("low", "qualification",
                                      missingQualifications, Undefined)>>
            ELSE <<>>
        industry ==
            IF Truthy(jobAnalysis.industry)
                THEN <<Recommendation("medium", "industry", <<>>,
                                      jobAnalysis.industry)>>
            ELSE <<>>
    IN  skillGap \o related \o qualification \o industry

ExcellentFrom == 80
GoodFrom == 60
ModerateFrom == 40

\* which of the four texts, and the counts it names
generateSummary(matchedCount, missingCount, overallPercentage) ==
    [id |-> IF overallPercentage >= ExcellentFrom THEN "excellent"
            ELSE IF overallPercentage >= GoodFrom THEN "good"
            ELSE IF overallPercentage >= ModerateFrom THEN "moderate"
            ELSE "stretch",
     matchedCount |-> matchedCount, missingCount |-> missingCount]

emptyGapReport ==
    [skills |-> [matched |-> <<>>, missing |-> <<>>, matchPercentage |-> 0],
     qualifications |->
        [matched |-> <<>>, missing |-> <<>>, matchPercentage |-> 0],
     overallMatchPercentage |-> 0,
     recommendations |-> <<>>,
     summary |-> [id |-> "", matchedCount |-> 0, missingCount |-> 0]]

\* an analyzeSkillsGap call that ended in an exception
GapThrew(error) == [status |-> "threw", error |-> error, report |-> emptyGapReport]

\* exp.bullets of a null element of resumeContent.experience, read by
\* findRelatedExperience for a skill that is not matched, is a TypeError
gapThrows(jobAnalysis, resumeContent, userAnswers) ==
    LET resumeSkills == resumeSkillsOf(resumeContent)
        userExperienceText == userExperienceTextOf(userAnswers)
        requiredSkills == OrEmpty(jobAnalysis.requiredSkills)
        experience == OrEmpty(resumeContent.experience)
    IN  /\ \E i \in 1..Len(requiredSkills) :
               ~skillIsMatched(resumeSkills, userExperienceText,
                               requiredSkills[i])
        /\ \E x \in 1..Len(experience) : experience[x].isNull

\* the body of analyzeSkillsGap after the two argument checks
gapBody(jobAnalysis, resumeContent, userAnswers) ==
    LET resumeSkills == resumeSkillsOf(resumeContent)
        userExperienceText == userExperienceTextOf(userAnswers)
        requiredSkills == OrEmpty(jobAnalysis.requiredSkills)
        SkillMatched(skill) ==
            skillIsMatched(resumeSkills, userExperienceText, skill)
        SkillMissing(skill) == ~SkillMatched(skill)
        matchedSkills == SelectSeq(requiredSkills, SkillMatched)
        unmatched == SelectSeq(requiredSkills, SkillMissing)
        missingSkills ==
            [i \in 1..Len(unmatched) |->
                missingSkillEntry(unmatched[i], userAnswers, resumeContent)]
        preferredQualifications == OrEmpty(jobAnalysis.preferredQualifications)
        QualMatched(qual) ==
            qualificationIsMatched(resumeSkills, userExperienceText, qual)
        QualMissing(qual) == ~QualMatched(qual)
        matchedQualifications == SelectSeq(preferredQualifications, QualMatched)
        missingQualifications == SelectSeq(preferredQualifications, QualMissing)
        skillMatchPercentage ==
            matchPercentage(Len(matchedSkills), Len(requiredSkills))
        qualMatchPercentage ==
            matchPercentage(Len(matchedQualifications),
                            Len(preferredQualifications))
        overallMatchPercentage ==
            overallMatch(skillMatchPercentage, qualMatchPercentage)
    IN  [status |-> "returned", error |-> "",
         report |->
            [skills |->
                [matched |-> matchedSkills, missing |-> missingSkills,
                 matchPercentage |-> skillMatchPercentage],
             qualifications |->
                [matched |-> matchedQualifications,
                 missing |-> missingQualifications,
                 matchPercentage |-> qualMatchPercentage],
             overallMatchPercentage |-> overallMatchPercentage,
             recommendations |->
                generateOverallRecommendations(missingSkills,
                                               missingQualifications,
                                               jobAnalysis),
             summary |->
                generateSummary(Len(matchedSkills), Len(missingSkills),
                                overallMatchPercentage)]]

analyzeSkillsGap(jobAnalysis, resumeContent, userAnswers) ==
    IF NotAnObject(jobAnalysis)
        THEN GapThrew("jobAnalysis must be a valid object")
    ELSE IF NotAnObject(resumeContent)
        THEN GapThrew("resumeContent must be a valid object")
    ELSE IF gapThrows(jobAnalysis, resumeContent, userAnswers)
        THEN GapThrew("TypeError")
    ELSE gapBody(jobAnalysis, resumeContent, userAnswers)

(***************************************************************************)
(* salaryEstimator                                                         *)
(*                                                                         *)
(* atsScore: [kind, overallScore].  Salaries are counted in thousands and  *)
(* multipliers in hundredths; arithmetic is exact.                         *)
(***************************************************************************)
l_entry == <<"e","n","t","r","y">>
l_mid == <<"m","i","d">>
l_senior == <<"s","e","n","i","o","r">>
l_Technology == <<"T","e","c","h","n","o","l","o","g","y">>

\* userAnswers?.<key> : the value of the property, if the object has it
answerOf(userAnswers, key) ==
    LET found == SelectSeq(userAnswers.entries, LAMBDA e : e.key = key)
    IN  IF found = <<>> THEN Undefined ELSE Some(found[1])

\* the truth test of a string or number value
valueTruthy(e) == IF e.isString THEN e.str # <<>> ELSE e.num # 0

\* userAnswers?.years_of_experience || userAnswers?.yearsOfExperience
statedYears(userAnswers) ==
    LET first == answerOf(userAnswers, "years_of_experience")
    IN  IF Has(first) /\ valueTruthy(Get(first)) THEN first
        ELSE answerOf(userAnswers, "yearsOfExperience")

RECURSIVE leadingDigits(_)
leadingDigits(s) ==
    IF s # <<>> /\ IsDigit(Head(s)) THEN <<Head(s)>> \o leadingDigits(Tail(s))
    ELSE <<>>

RECURSIVE decimalValue(_)
decimalValue(ds) ==
    IF ds = <<>> THEN 0
    ELSE 10 * decimalValue(SubSeq(ds, 1, Len(ds) - 1)) + digitValue(ds[Len(ds)])

\* parseInt of a string or an integer number; NaN is Undefined
parseInt(e) ==
    IF ~e.isString THEN Some(e.num)
    ELSE LET s == trimStart(e.str)
             signed == s # <<>> /\ Head(s) \in {"+", "-"}
             ds == leadingDigits(IF signed THEN Tail(s) ELSE s)
         IN  IF ds = <<>> THEN Undefined
             ELSE IF signed /\ Head(s) = "-" THEN Some(0 - decimalValue(ds))
             ELSE Some(decimalValue(ds))

DefaultYears == 3
\* parseInt(...) || 3
yearsOfExperienceOf(userAnswers) ==
    LET stated == statedYears(userAnswers)
        parsed == IF Has(stated) THEN parseInt(Get(stated)) ELSE Undefined
    IN  IF Has(parsed) /\ Get(parsed) # 0 THEN Get(parsed) ELSE DefaultYears

DefaultATSScore == 70
\* atsScore?.overallScore || 70
overallATSScoreOf(atsScore) ==
    IF atsScore.kind = "object" /\ Has(atsScore.overallScore)
       /\ Get(atsScore.overallScore) # 0
        THEN Get(atsScore.overallScore)
    ELSE DefaultATSScore

\* baseSalaryRanges, in thousands of USD
baseSalaryRanges ==
    <<[level |-> l_entry, min |-> 45, mid |-> 60, max |-> 80],
      [level |-> l_mid, min |-> 70, mid |-> 95, max |-> 130],
      [level |-> l_senior, min |-> 110, mid |-> 145, max |-> 200]>>

\* baseSalaryRanges[jobLevel] || baseSalaryRanges.mid
baseRangeOf(jobLevel) ==
    LET own == SelectSeq(baseSalaryRanges, LAMBDA r : r.level = jobLevel)
    IN  IF own # <<>> THEN own[1] ELSE baseSalaryRanges[2]

\* { entry: 1, mid: 3, senior: 6 }[jobLevel] || 3
baseYearsOf(jobLevel) ==
    IF jobLevel = l_entry THEN 1
    ELSE IF jobLevel = l_mid THEN 3
    ELSE IF jobLevel = l_senior THEN 6
    ELSE 3

\* industryMultipliers[Object.keys(industryMultipliers).find(key =>
\*     industry.toLowerCase().includes(key.toLowerCase())) || 'default']
industryMultiplierOf(industry) ==
    LET hits == SelectSeq(industryMultipliers,
                    LAMBDA m : includes(toLowerCase(industry),
                                        toLowerCase(m.key)))
    IN  IF hits # <<>> THEN hits[1].multiplier
        ELSE industryMultipliers[Len(industryMultipliers)].multiplier

PercentPerYear == 2
\* Math.max(0, (yearsOfExperience - baseYears) * 0.02), in hundredths
experienceBonusOf(yearsOfExperience, baseYears) ==
    Max(0, (yearsOfExperience - baseYears) * PercentPerYear)

\* requiredSkills.filter(skill => highDemandSkills.some(hd =>
\*     skill.toLowerCase().includes(hd))).length
matchedHighDemandOf(requiredSkills) ==
    Len(SelectSeq(requiredSkills,
            LAMBDA skill :
                \E i \in 1..Len(highDemandSkills) :
                    includes(toLowerCase(skill), highDemandSkills[i])))

PercentPerSkill == 2
\* 1 + matchedHighDemand * 0.02, in hundredths
skillsMultiplierOf(matchedHighDemand) ==
    100 + matchedHighDemand * PercentPerSkill

StrongFrom == 80
SolidFrom == 60
\* overallATSScore >= 80 ? 1.05 : overallATSScore >= 60 ? 1.0 : 0.95
atsMultiplierOf(overallATSScore) ==
    IF overallATSScore >= StrongFrom THEN 105
    ELSE IF overallATSScore >= SolidFrom THEN 100
    ELSE 95

\* Math.round(base * totalMultiplier / 1000) * 1000 for a base given in
\* thousands and a total multiplier of product / 10^8; the division is made
\* in two steps of 10^4 so that no intermediate value exceeds 32 bits.
\* Halves round up; where the exact quotient is a half, the product of
\* doubles may lie just below it and round down.
roundedSalary(thousands, product) ==
    LET hi == product \div 10000
        lo == product % 10000
    IN  ((thousands * hi + (thousands * lo + 50000000) \div 10000)
             \div 10000) * 1000

Factor(factor, impact, n, text) ==
    [factor |-> factor, impact |-> impact, n |-> n, text |-> text]

\* jobLevel.charAt(0).toUpperCase() + jobLevel.slice(1)
capitalize(s) == IF s = <<>> THEN s ELSE <<toUpperChar(Head(s))>> \o Tail(s)

\* positive above 1, negative below 1, otherwise neutral
multiplierImpact(multiplier) ==
    IF multiplier > 100 THEN "positive"
    ELSE IF multiplier < 100 THEN "negative"
    ELSE "neutral"

ExperienceNotable == 5
salaryFactors(jobLevel, industry, industryMultiplier, yearsOfExperience, experienceBonus, matchedHighDemand, overallATSScore, atsMultiplier) ==
    <<Factor("Job Level", "baseline", 0, Some(capitalize(jobLevel))),
      Factor("Industry", multiplierImpact(industryMultiplier), 0,
             Some(industry)),
      Factor("Years of Experience",
             IF experienceBonus > ExperienceNotable THEN "positive"
             ELSE "neutral",
             yearsOfExperience, Undefined)>>
    \o (IF matchedHighDemand > 0
            THEN <<Factor("High-Demand Skills", "positive",
                          matchedHighDemand, Undefined)>>
        ELSE <<>>)
    \o <<Factor("Resume Strength", multiplierImpact(atsMultiplier),
                overallATSScore, Undefined)>>

FewHighDemand == 2
ExperienceMargin == 2
salaryTips(overallATSScore, matchedHighDemand, yearsOfExperience, baseYears) ==
    (IF overallATSScore < StrongFrom THEN <<"improveAtsScore">> ELSE <<>>)
    \o (IF matchedHighDemand < FewHighDemand
            THEN <<"highlightHighDemand">> ELSE <<>>)
    \o <<"researchSalaries", "totalCompensation">>
    \o (IF yearsOfExperience > baseYears + ExperienceMargin
            THEN <<"experienceLeverage">> ELSE <<>>)

BaseConfidence == 50
ConfidenceStep == 10
CultureStep == 5
ConfidenceCap == 85
ManySkills == 3
\* the variable score of calculateConfidence before the cap
confidenceScore(jobAnalysis, userAnswers) ==
    LET years == statedYears(userAnswers)
    IN  BaseConfidence
        + (IF Truthy(jobAnalysis.industry) THEN ConfidenceStep ELSE 0)
        + (IF Truthy(jobAnalysis.jobLevel) THEN ConfidenceStep ELSE 0)
        + (IF Len(OrEmpty(jobAnalysis.requiredSkills)) > ManySkills
               THEN ConfidenceStep ELSE 0)
        + (IF Has(years) /\ valueTruthy(Get(years))
               THEN ConfidenceStep ELSE 0)
        + (IF Len(OrEmpty(jobAnalysis.companyCultureIndicators)) > 0
               THEN CultureStep ELSE 0)

\* return score, without Math.min(score, 85)
calculateConfidence_uncapped(jobAnalysis, userAnswers) ==
    confidenceScore(jobAnalysis, userAnswers)

calculateConfidence(jobAnalysis, userAnswers) ==
    Min(confidenceScore(jobAnalysis, userAnswers), ConfidenceCap)

emptySalaryReport ==
    [range |-> [min |-> 0, mid |-> 0, max |-> 0], currency |-> "",
     period |-> "", factors |-> <<>>, tips |-> <<>>, confidence |-> 0]

\* estimateSalary is async: an exception rejects the returned promise
SalaryRejected(error) ==
    [status |-> "rejected", error |-> error, report |-> emptySalaryReport,
     used |-> [yearsOfExperience |-> 0, overallATSScore |-> 0,
               baseYears |-> 0, experienceBonus |-> 0, atsMultiplier |-> 0]]

\* the body of estimateSalary after the argument check; resumeContent is
\* not read.  used holds the values of the local constants of the same
\* names.
salaryBody(jobAnalysis, atsScore, userAnswers) ==
    LET jobLevel == IF Truthy(jobAnalysis.jobLevel)
                        THEN Get(jobAnalysis.jobLevel) ELSE l_mid
        industry == IF Truthy(jobAnalysis.industry)
                        THEN Get(jobAnalysis.industry) ELSE l_Technology
        requiredSkills == OrEmpty(jobAnalysis.requiredSkills)
        yearsOfExperience == yearsOfExperienceOf(userAnswers)
        overallATSScore == overallATSScoreOf(atsScore)
        baseRange == baseRangeOf(jobLevel)
        industryMultiplier == industryMultiplierOf(industry)
        baseYears == baseYearsOf(jobLevel)
        experienceBonus == experienceBonusOf(yearsOfExperience, baseYears)
        matchedHighDemand == matchedHighDemandOf(requiredSkills)
        skillsMultiplier == skillsMultiplierOf(matchedHighDemand)
        atsMultiplier == atsMultiplierOf(overallATSScore)
        totalMultiplier ==
            industryMultiplier * (100 + experienceBonus) * skillsMultiplier
            * atsMultiplier
    IN  [status |-> "resolved", error |-> "",
         used |->
            [yearsOfExperience |-> yearsOfExperience,
             overallATSScore |-> overallATSScore, baseYears |-> baseYears,
             experienceBonus |-> experienceBonus,
             atsMultiplier |-> atsMultiplier],
         report |->
            [range |->
                [min |-> roundedSalary(baseRange.min, totalMultiplier),
                 mid |-> roundedSalary(baseRange.mid, totalMultiplier),
                 max |-> roundedSalary(baseRange.max, totalMultiplier)],
             currency |-> "USD",
             period |-> "annual",
             factors |->
                salaryFactors(jobLevel, industry, industryMultiplier,
                              yearsOfExperience, experienceBonus,
                              matchedHighDemand, overallATSScore,
                              atsMultiplier),
             tips |->
                salaryTips(overallATSScore, matchedHighDemand,
                           yearsOfExperience, baseYears),
             confidence |-> calculateConfidence(jobAnalysis, userAnswers)]]

estimateSalary(jobAnalysis, resumeContent, atsScore, userAnswers) ==
    IF NotAnObject(jobAnalysis)
        THEN SalaryRejected("jobAnalysis must be a valid object")
    ELSE salaryBody(jobAnalysis, atsScore, userAnswers)


(***************************************************************************)
(* useAchievementBank                                                      *)
(*                                                                         *)
(* An achievement is [id, title]; the other fields are carried along like  *)
(* title.  The item under STORAGE_KEY is [json, achievements,              *)
(* lastUpdated]: json tells whether JSON.parse throws on the text          *)
(* ("invalid") or what it returns ("object"), the other two are the        *)
(* properties of that object.  JSON.stringify followed by JSON.parse       *)
(* returns an equal value for the strings, numbers and arrays the hook     *)
(* stores.  A state update that waits for the next render is [kind, items, *)
(* id, title, stamp].                                                      *)
(***************************************************************************)
Achievement(id, title) == [id |-> id, title |-> title]

StoredItem(json, list, stamp) ==
    [json |-> json, achievements |-> list, lastUpdated |-> stamp]

Update(kind, items, id, title, stamp) ==
    [kind |-> kind, items |-> items, id |-> id, title |-> title,
     stamp |-> stamp]
\* setAchievements(items)
SetAchievements(items) == Update("set", items, 0, "", Undefined)
\* setAchievements(prev => [...prev, ...items])
AppendAchievements(items) == Update("append", items, 0, "", Undefined)
\* setAchievements(prev => prev.map(...)) of updateAchievement
MapAchievements(id, title) == Update("update", <<>>, id, title, Undefined)
\* setAchievements(prev => prev.filter(ach => ach.id !== id))
FilterAchievements(id) == Update("delete", <<>>, id, "", Undefined)
SetLastUpdated(stamp) == Update("stamp", <<>>, 0, "", stamp)
SetIsLoaded == Update("loaded", <<>>, 0, "", Undefined)

\* the updates that give the achievements state a new array
ListUpdates == {"set", "append", "update", "delete"}

\* getInitialState: the stored achievements and lastUpdated; the defaults
\* when there is no item, when JSON.parse throws, and for a property the
\* parsed object lacks
getInitialState(store) ==
    IF Has(store) /\ Get(store).json # "invalid"
        THEN [achievements |-> OrEmpty(Get(store).achievements),
              lastUpdated |-> Get(store).lastUpdated]
    ELSE [achievements |-> <<>>, lastUpdated |-> Undefined]

\* one state update applied to the state of the hook
applyUpdate(state, u) ==
    IF u.kind = "set" THEN [state EXCEPT !.achievements = u.items]
    ELSE IF u.kind = "append"
        THEN [state EXCEPT !.achievements = @ \o u.items]
    ELSE IF u.kind = "update"
        THEN [state EXCEPT !.achievements =
                [i \in 1..Len(@) |->
                    IF @[i].id = u.id THEN [@[i] EXCEPT !.title = u.title]
                    ELSE @[i]]]
    ELSE IF u.kind = "delete"
        THEN [state EXCEPT !.achievements =
                SelectSeq(@, LAMBDA ach : ach.id # u.id)]
    ELSE IF u.kind = "stamp" THEN [state EXCEPT !.lastUpdated = u.stamp]
    ELSE [state EXCEPT !.isLoaded = TRUE]

\* the updates of the queue applied in the order they were made
RECURSIVE applyUpdates(_, _)
applyUpdates(state, updates) ==
    IF updates = <<>> THEN state
    ELSE applyUpdates(applyUpdate(state, Head(updates)), Tail(updates))

\* importAchievements: whether the try block throws, at JSON.parse or at
\* the read of imported.achievements when imported is null
importThrows(jsonString) == jsonString.json \in {"invalid", "null"}

\* Array.isArray(imported) ? imported : imported.achievements || [], each
\* element with a new id
newAchievements(jsonString, lastId) ==
    LET importedAchievements == OrEmpty(jsonString.titles)
    IN  [i \in 1..Len(importedAchievements) |->
            Achievement(lastId + i, importedAchievements[i])]

\* the return value of a method; success and count are those of
\* importAchievements
Called(n, fn, json, success, count) ==
    [n |-> n, fn |-> fn, json |-> json, success |-> success, count |-> count]
(***************************************************************************)
(* The resumes and jobs the model checks                                   *)
(***************************************************************************)
\* "I use Java daily"
s_IUseJavaDaily ==
    <<"I"," ","u","s","e"," ","J","a","v","a"," ","d","a","i","l","y">>
\* "javascript"
s_javascript ==
    <<"j","a","v","a","s","c","r","i","p","t">>
\* "java"
s_java ==
    <<"j","a","v","a">>
\* "++"
s_plusplus ==
    <<"+","+">>
\* "Experienced Python engineer. Built React and SQL apps for cloud teams."
s_sumGood ==
    <<"E","x","p","e","r","i","e","n","c","e","d"," ","P","y","t","h","o",
      "n"," ","e","n","g","i","n","e","e","r","."," ","B","u","i","l","t",
      " ","R","e","a","c","t"," ","a","n","d"," ","S","Q","L"," ","a","p",
      "p","s"," ","f","o","r"," ","c","l","o","u","d"," ","t","e","a","m",
      "s",".">>
\* "Java dev"
s_sumShort ==
    <<"J","a","v","a"," ","d","e","v">>
\* "Python and python"
s_sumPython2 ==
    <<"P","y","t","h","o","n"," ","a","n","d"," ","p","y","t","h","o","n">>
\* "Acme"
s_Acme ==
    <<"A","c","m","e">>
\* "Developer"
s_Developer ==
    <<"D","e","v","e","l","o","p","e","r">>
\* "Beta"
s_Beta ==
    <<"B","e","t","a">>
\* "Lead"
s_Lead ==
    <<"L","e","a","d">>
\* "Developed Docker tools and reduced cost by 20%"
s_bulletDocker ==
    <<"D","e","v","e","l","o","p","e","d"," ","D","o","c","k","e","r"," ",
      "t","o","o","l","s"," ","a","n","d"," ","r","e","d","u","c","e","d",
      " ","c","o","s","t"," ","b","y"," ","2","0","%">>
\* "Improved Java build speed"
s_bulletJava ==
    <<"I","m","p","r","o","v","e","d"," ","J","a","v","a"," ","b","u","i",
      "l","d"," ","s","p","e","e","d">>
\* "Led 5 engineers and increased sales"
s_bulletLed ==
    <<"L","e","d"," ","5"," ","e","n","g","i","n","e","e","r","s"," ","a",
      "n","d"," ","i","n","c","r","e","a","s","e","d"," ","s","a","l","e",
      "s">>
\* "Used Java daily"
s_bulletPlain ==
    <<"U","s","e","d"," ","J","a","v","a"," ","d","a","i","l","y">>
\* "Python"
s_Python ==
    <<"P","y","t","h","o","n">>
\* "React"
s_React ==
    <<"R","e","a","c","t">>
\* "SQL"
s_SQL ==
    <<"S","Q","L">>
\* "Java"
s_Java ==
    <<"J","a","v","a">>
\* "Docker"
s_Docker ==
    <<"D","o","c","k","e","r">>
\* "Rust"
s_Rust ==
    <<"R","u","s","t">>
\* "C++"
s_Cpp ==
    <<"C","+","+">>
\* "Node.js"
s_NodeJs ==
    <<"N","o","d","e",".","j","s">>
\* "AWS"
s_AWS ==
    <<"A","W","S">>
\* "Git"
s_Git ==
    <<"G","i","t">>
\* "Jira"
s_Jira ==
    <<"J","i","r","a">>
\* "Teamwork"
s_Teamwork ==
    <<"T","e","a","m","w","o","r","k">>
\* "Writing"
s_Writing ==
    <<"W","r","i","t","i","n","g">>
\* "Mentoring"
s_Mentoring ==
    <<"M","e","n","t","o","r","i","n","g">>
\* "BSc"
s_BSc ==
    <<"B","S","c">>
\* "MIT"
s_MIT ==
    <<"M","I","T">>
\* "Awards"
s_Awards ==
    <<"A","w","a","r","d","s">>
\* "Hackathon winner"
s_Hackathon ==
    <<"H","a","c","k","a","t","h","o","n"," ","w","i","n","n","e","r">>
\* "python"
s_python ==
    <<"p","y","t","h","o","n">>
\* "kotlin"
s_kotlin ==
    <<"k","o","t","l","i","n">>
\* "rust"
s_rust ==
    <<"r","u","s","t">>
\* "sql"
s_sql ==
    <<"s","q","l">>
\* "GraphQL"
s_GraphQL ==
    <<"G","r","a","p","h","Q","L">>
\* "Kubernetes"
s_Kubernetes ==
    <<"K","u","b","e","r","n","e","t","e","s">>
\* "ReactJS"
s_ReactJS ==
    <<"R","e","a","c","t","J","S">>
\* "Finance"
s_Finance ==
    <<"F","i","n","a","n","c","e">>
\* "Retail"
s_Retail ==
    <<"R","e","t","a","i","l">>
\* "lead"
s_lead ==
    <<"l","e","a","d">>
\* "AWS certification"
s_qualAws ==
    <<"A","W","S"," ","c","e","r","t","i","f","i","c","a","t","i","o","n">>
\* "PhD"
s_qualPhd ==
    <<"P","h","D">>
\* "remote-first"
s_remote ==
    <<"r","e","m","o","t","e","-","f","i","r","s","t">>
\* "I built backend APIs with JavaScript"
s_answerBackend ==
    <<"I"," ","b","u","i","l","t"," ","b","a","c","k","e","n","d"," ","A",
      "P","I","s"," ","w","i","t","h"," ","J","a","v","a","S","c","r","i",
      "p","t">>
\* "7 years"
s_7years ==
    <<"7"," ","y","e","a","r","s">>
\* "Designed REST API backend services"
s_bulletApi ==
    <<"D","e","s","i","g","n","e","d"," ","R","E","S","T"," ","A","P","I",
      " ","b","a","c","k","e","n","d"," ","s","e","r","v","i","c","e","s">>
\* "gql"
s_gql ==
    <<"g","q","l">>
\* "We used React and GraphQL at work"
s_answerReact ==
    <<"W","e"," ","u","s","e","d"," ","R","e","a","c","t"," ","a","n","d",
      " ","G","r","a","p","h","Q","L"," ","a","t"," ","w","o","r","k">>
\* "Consulting"
s_Consulting ==
    <<"C","o","n","s","u","l","t","i","n","g">>

Experience(company, role, bullets) ==
    [isNull |-> FALSE, company |-> Some(company), role |-> Some(role),
     bullets |-> Some(bullets)]
\* an entry with two bullets that carry a metric and an action verb
e_acme == Experience(s_Acme, s_Developer, <<s_bulletDocker, s_bulletJava>>)
e_beta == Experience(s_Beta, s_Lead, <<s_bulletLed>>)
\* one bullet of two carries a metric and an action verb
e_plain == Experience(s_Acme, s_Developer, <<s_bulletPlain, s_bulletLed>>)
\* an entry without company, role and bullets
e_bare ==
    [isNull |-> FALSE, company |-> Undefined, role |-> Undefined,
     bullets |-> Undefined]
\* a null element of the experience array
e_null ==
    [isNull |-> TRUE, company |-> Undefined, role |-> Undefined,
     bullets |-> Undefined]

\* the shape {technical, soft, tools}
legacySkills ==
    [noSkills EXCEPT
        !.technical = Some(<<s_Python, s_React, s_SQL, s_Java, s_Docker>>),
        !.soft = Some(<<s_Teamwork, s_Writing, s_Mentoring>>),
        !.tools = Some(<<s_Git, s_Jira>>)]
\* the shape {languages, frameworks, databases, cloud, tools}
newSkills ==
    [noSkills EXCEPT
        !.languages = Some(<<s_Python, s_Rust>>),
        !.frameworks = Some(<<s_React>>),
        !.databases = Some(<<s_SQL>>),
        !.cloud = Some(<<s_AWS>>),
        !.tools = Some(<<s_Git>>)]

edu_bsc == [degree |-> Some(s_BSc), institution |-> Some(s_MIT), details |-> Undefined]
sec_awards == [title |-> Some(s_Awards), items |-> Some(<<s_Hackathon>>)]

Resume(summary, experience, skills, education, additionalSections) ==
    [kind |-> "object", summary |-> summary, experience |-> experience,
     skills |-> skills, education |-> education,
     additionalSections |-> additionalSections]

\* {} : every section absent
r_empty == Resume(Undefined, Undefined, Undefined, Undefined, Undefined)
r_full ==
    Resume(Some(s_sumGood), Some(<<e_acme, e_beta>>), Some(legacySkills),
           Some(<<edu_bsc>>), Some(<<sec_awards>>))
r_python2 == [r_empty EXCEPT !.summary = Some(s_sumPython2)]
\* { summary: 'Java dev' }
r_short == [r_empty EXCEPT !.summary = Some(s_sumShort)]
\* { summary: 'I use Java daily' }
r_daily == [r_empty EXCEPT !.summary = Some(s_IUseJavaDaily)]
r_new == [r_empty EXCEPT !.summary = Some(s_sumShort), !.skills = Some(newSkills)]
\* { summary: 'java java java java java' } and the same with one more
s_javaFive ==
    s_java \o <<" ">> \o s_java \o <<" ">> \o s_java \o <<" ">> \o s_java
    \o <<" ">> \o s_java
r_javaFive == [r_empty EXCEPT !.summary = Some(s_javaFive)]
r_javaSix == [r_empty EXCEPT !.summary = Some(s_javaFive \o <<" ">> \o s_java)]

Keyword(kw, frequency) ==
    [isNull |-> FALSE, keyword |-> Some(kw), frequency |-> Some(frequency)]
k_python5 == Keyword(s_python, 5)
k_python4 == Keyword(s_python, 4)
k_java1 == Keyword(s_java, 1)
k_kotlin1 == Keyword(s_kotlin, 1)
k_rust0 == Keyword(s_rust, 0)
k_plusplus2 == Keyword(s_plusplus, 2)
\* an element without frequency, one without keyword, and null
k_sqlNoFrequency == [isNull |-> FALSE, keyword |-> Some(s_sql), frequency |-> Undefined]
k_noKeyword == [isNull |-> FALSE, keyword |-> Undefined, frequency |-> Some(3)]
k_null == [isNull |-> TRUE, keyword |-> Undefined, frequency |-> Undefined]

Job(atsKeywords, requiredSkills) ==
    [kind |-> "object", atsKeywords |-> atsKeywords,
     requiredSkills |-> requiredSkills, preferredQualifications |-> Undefined,
     jobLevel |-> Undefined, industry |-> Undefined,
     companyCultureIndicators |-> Undefined]

j_all == Job(Some(<<k_python5>>), Some(<<s_Python, s_React>>))
j_fourOfFive ==
    Job(Some(<<k_python4, k_kotlin1>>),
        Some(<<s_Python, s_React, s_SQL, s_Docker, s_Rust>>))
j_emptyLists == Job(Some(<<>>), Some(<<>>))
j_noFields == Job(Undefined, Undefined)

\* the end-to-end scenario: a job with 10 ATS keywords and 5 required skills
j_scenario ==
    Job(Some(<<k_python5, k_java1, k_kotlin1, Keyword(s_rust, 2),
               Keyword(s_sql, 1), Keyword(s_javascript, 1),
               Keyword(s_Docker, 2), Keyword(s_React, 3), Keyword(s_AWS, 1),
               Keyword(s_Kubernetes, 1)>>),
        Some(<<s_Python, s_React, s_SQL, s_Docker, s_Rust>>))
\* an entry with company and role and an empty bullets array
e_noBullets == Experience(s_Acme, s_Developer, <<>>)
\* a skills object whose three arrays are empty
emptySkills ==
    [noSkills EXCEPT !.technical = Some(<<>>), !.soft = Some(<<>>),
                     !.tools = Some(<<>>)]
\* an education entry whose details name a keyword of the scenario job
edu_python ==
    [degree |-> Some(s_BSc), institution |-> Some(s_MIT),
     details |-> Some(s_Python)]

(***************************************************************************)
(* Bounds and input sets of the scoring specification                      *)
(***************************************************************************)
MaxKeywords == 2
MaxSkills == 2

SeqsUpTo(S, n) == UNION {[1..k -> S] : k \in 0..n}
OptionalSeqs(S, n) == {Undefined} \cup {Some(l) : l \in SeqsUpTo(S, n)}

KeywordPool ==
    {k_python5, k_java1, k_rust0, k_plusplus2, k_sqlNoFrequency,
     k_noKeyword, k_null}
SkillPool == {s_Python, s_React, s_Rust, s_Cpp, s_NodeJs}

SummaryOptions == {Undefined, Some(<<>>), Some(s_sumShort), Some(s_sumGood)}
ExperienceOptions ==
    {Undefined, Some(<<>>), Some(<<e_acme, e_beta>>), Some(<<e_plain>>),
     Some(<<e_bare>>), Some(<<e_acme, e_null>>)}
SkillsOptions == {Undefined, Some(noSkills), Some(legacySkills), Some(newSkills)}
EducationOptions == {Undefined, Some(<<>>), Some(<<edu_bsc>>)}
SectionsOptions == {Undefined, Some(<<>>), Some(<<sec_awards>>)}

AllResumes ==
    {Resume(su, ex, sk, ed, ad) :
        su \in SummaryOptions, ex \in ExperienceOptions, sk \in SkillsOptions,
        ed \in EducationOptions, ad \in SectionsOptions}
FewResumes ==
    {r_empty, r_full, r_python2, r_new, r_short, r_daily, r_javaFive, r_javaSix}

FewJobs == {j_all, j_fourOfFive, j_emptyLists, j_noFields}
TwoJobs == {j_fourOfFive, j_noFields}
VariedJobs ==
    {Job(kws, Some(<<s_Python, s_Rust>>)) :
        kws \in OptionalSeqs(KeywordPool, MaxKeywords)}
    \cup {Job(Some(<<k_python5, k_java1>>), skills) :
            skills \in OptionalSeqs(SkillPool, MaxSkills)}

\* resumes without experience bullets, without skills and with an empty or
\* absent summary
BareResumes ==
    {Resume(su, ex, sk, ed, ad) :
        su \in {Undefined, Some(<<>>)},
        ex \in {Undefined, Some(<<>>), Some(<<e_bare>>), Some(<<e_noBullets>>)},
        sk \in {Undefined, Some(noSkills), Some(emptySkills)},
        ed \in EducationOptions \cup {Some(<<edu_python>>)},
        ad \in SectionsOptions}

ScoreCases ==
    (AllResumes \X TwoJobs) \cup (FewResumes \X (FewJobs \cup VariedJobs))
    \cup (BareResumes \X {j_scenario})


(***************************************************************************)
(* Arguments of the entry-point specification                              *)
(***************************************************************************)
\* the kinds of value that are not an object; an array is an object
NonObjectKinds == {"undefined", "null", "string", "number"}

\* a value of another kind passed as resumeContent, as jobAnalysis; of an
\* empty array, like of {}, every property read is undefined
NotAResume(kind) == [r_empty EXCEPT !.kind = kind]
NotAJob(kind) == [j_noFields EXCEPT !.kind = kind]

e_api == Experience(s_Beta, s_Lead, <<s_bulletApi>>)
r_api == [r_new EXCEPT !.experience = Some(<<e_api>>)]
r_nullEntry == [r_new EXCEPT !.experience = Some(<<e_acme, e_null>>)]

j_senior ==
    [kind |-> "object",
     atsKeywords |-> Some(<<k_python5, k_java1>>),
     requiredSkills |->
        Some(<<s_Python, s_ReactJS, s_GraphQL, s_Kubernetes, s_Docker>>),
     preferredQualifications |-> Some(<<s_qualAws, s_qualPhd>>),
     jobLevel |-> Some(l_senior),
     industry |-> Some(s_Finance),
     companyCultureIndicators |-> Some(<<s_remote>>)]
j_retail ==
    [j_all EXCEPT !.jobLevel = Some(s_lead), !.industry = Some(s_Retail),
                  !.preferredQualifications = Some(<<s_qualPhd>>)]
j_badKeyword == Job(Some(<<k_noKeyword>>), Some(<<s_Python>>))

TextAnswer(key, str) == [key |-> key, isString |-> TRUE, str |-> str, num |-> 0]
NumberAnswer(key, num) ==
    [key |-> key, isString |-> FALSE, str |-> <<>>, num |-> num]
Answers(entries) == [kind |-> "object", entries |-> entries]
\* userAnswers not passed
a_none == [kind |-> "undefined", entries |-> <<>>]
a_empty == Answers(<<>>)
a_years5 == Answers(<<NumberAnswer("years_of_experience", 5)>>)
a_years0 == Answers(<<NumberAnswer("years_of_experience", 0)>>)
a_text ==
    Answers(<<TextAnswer("experience_details", s_answerBackend),
              TextAnswer("yearsOfExperience", s_7years)>>)

AtsScore(overallScore) == [kind |-> "object", overallScore |-> Some(overallScore)]
\* atsScore not passed
ats_none == [kind |-> "undefined", overallScore |-> Undefined]

EntryResumes ==
    {NotAResume(kind) : kind \in NonObjectKinds \cup {"array"}}
    \cup {r_empty, r_full, r_new, r_api, r_nullEntry}
EntryJobs ==
    {NotAJob(kind) : kind \in NonObjectKinds \cup {"array"}}
    \cup {j_noFields, j_emptyLists, j_all, j_fourOfFive, j_senior, j_retail,
          j_badKeyword}
EntryAnswers == {a_none, a_empty, a_years5, a_years0, a_text}
EntryScores == {ats_none, AtsScore(0), AtsScore(55), AtsScore(85)}

(***************************************************************************)
(* Bounds and input sets of the gap specification                          *)
(***************************************************************************)
MaxGapSkills == 2

GapSkillPool == {s_React, s_GraphQL, s_Kubernetes, s_Python}
\* "ReactJS" contains "react"; "gql" shares a group of relatedSkillsMap with
\* "graphql" and is no substring of it
GapSkillLists ==
    {<<s_ReactJS>>, <<s_gql, s_Kubernetes>>, <<s_React, s_Python>>}
GapCategories == {"frameworks", "technical", "other"}
GapSkillsOptions ==
    {Undefined, Some(noSkills)}
    \cup {Some([noSkills EXCEPT ![c] = Some(entries)]) :
            c \in GapCategories, entries \in GapSkillLists}

GapResumes ==
    {Resume(Undefined, ex, sk, Undefined, Undefined) :
        ex \in {Undefined, Some(<<e_api>>)}, sk \in GapSkillsOptions}

GapQualifications ==
    {Undefined, Some(<<>>), Some(<<s_qualPhd>>), Some(<<s_ReactJS, s_qualPhd>>),
     Some(<<s_ReactJS, s_qualPhd, s_qualAws>>)}

\* four required skills and two preferred qualifications
j_quarter ==
    [Job(Undefined, Some(<<s_React, s_GraphQL, s_Kubernetes, s_Python>>))
        EXCEPT !.preferredQualifications = Some(<<s_ReactJS, s_qualPhd>>)]

\* "Node" is contained in the table's "node.js" and does not contain it;
\* "React TypeScript" contains the table's "react" and "typescript"
s_Node == <<"N","o","d","e">>
s_ReactTypeScript == s_React \o <<" ">> \o <<"T","y","p","e","S","c","r","i","p","t">>
j_node == Job(Undefined, Some(<<s_Node, s_ReactTypeScript>>))
\* jobs that name an industry, with 0, 1 and 2 preferred qualifications
IndustryJobs ==
    {[j_node EXCEPT !.industry = Some(s_Finance)],
     [j_node EXCEPT !.industry = Some(s_Finance),
                    !.preferredQualifications = Some(<<s_qualPhd>>)],
     [j_quarter EXCEPT !.industry = Some(s_Finance)]}

GapJobs ==
    {[Job(Undefined, required) EXCEPT !.preferredQualifications = quals] :
        required \in OptionalSeqs(GapSkillPool, MaxGapSkills),
        quals \in GapQualifications}
    \cup {j_quarter, j_node}
    \cup IndustryJobs

a_react == Answers(<<TextAnswer("tools", s_answerReact)>>)
GapAnswers == {a_none, a_empty, a_text, a_react}

(***************************************************************************)
(* Input sets of the salary specification                                  *)
(***************************************************************************)
\* absent, '', two industries of the table (above and below 1) and one that
\* is not in it
IndustryOptions ==
    {Undefined, Some(<<>>), Some(s_Finance), Some(s_Retail), Some(s_Acme)}
\* absent, '', two levels of the table and one that is not in it
JobLevelOptions ==
    {Undefined, Some(<<>>), Some(l_entry), Some(l_senior), Some(s_lead)}
\* absent, and 0, 2, 3, 4 and 5 required skills
RequiredSkillsOptions ==
    {Undefined, Some(<<>>), Some(<<s_Python, s_React>>),
     Some(<<s_Java, s_SQL, s_Git>>),
     Some(<<s_Python, s_React, s_SQL, s_Docker>>),
     Some(<<s_Python, s_React, s_SQL, s_Docker, s_Rust>>)}
CultureOptions == {Undefined, Some(<<>>), Some(<<s_remote>>)}

SalaryJobs ==
    {[Job(Undefined, required) EXCEPT
          !.industry = industry, !.jobLevel = jobLevel,
          !.companyCultureIndicators = culture] :
        required \in RequiredSkillsOptions, industry \in IndustryOptions,
        jobLevel \in JobLevelOptions, culture \in CultureOptions}

\* years_of_experience '' and yearsOfExperience 12
a_yearsFallback ==
    Answers(<<TextAnswer("years_of_experience", <<>>),
              NumberAnswer("yearsOfExperience", 12)>>)
SalaryAnswers == {a_none, a_empty, a_years5, a_years0, a_text, a_yearsFallback}
SalaryScores == {ats_none, AtsScore(0), AtsScore(55), AtsScore(70), AtsScore(85)}

(***************************************************************************)
(* Bounds and input sets of the ordering and normalizing specifications    *)
(***************************************************************************)
MaxOrderKeywords == 3
\* frequencies 5, 1 and 2, a missing frequency, and an element without
\* keyword, on which calculateKeywordMatch throws
OrderPool == {k_python5, k_java1, k_plusplus2, k_sqlNoFrequency, k_noKeyword}
OrderResumes == {r_daily, r_python2}

\* arr in the order given by the permutation p of its indices
reorder(arr, p) == [i \in 1..Len(arr) |-> arr[p[i]]]
Reorderings(arr) == {reorder(arr, p) : p \in Permutations(1..Len(arr))}

MaxInput == 4
InputAlphabet == {"a", "B", " ", "+", "_"}
Inputs == UNION {[1..k -> InputAlphabet] : k \in 0..MaxInput}


(***************************************************************************)
(* Bounds and input sets of the achievement bank specification             *)
(***************************************************************************)
MaxOps == 2

\* no item; text that is not JSON; what the hook stored in an earlier
\* session; an object without achievements
StoredItems ==
    {Undefined,
     Some(StoredItem("invalid", Undefined, Undefined)),
     Some(StoredItem("object", Some(<<Achievement(0, "s")>>), Some(0))),
     Some(StoredItem("object", Undefined, Undefined))}

\* arguments of importAchievements: text that is not JSON, 'null', an array
\* of one achievement, an object with two achievements, '{}'
Json(json, titles) == [json |-> json, titles |-> titles]
ImportTexts ==
    {Json("invalid", Undefined), Json("null", Undefined),
     Json("array", Some(<<"i">>)), Json("object", Some(<<"i", "j">>)),
     Json("object", Undefined)}
(***************************************************************************)
(* Bounds of the text specification                                        *)
(***************************************************************************)
MaxHaystack == 4
MaxNeedle == 2
Alphabet == {"a", "B", " ", "+"}

StringsUpTo(n) == UNION {[1..k -> Alphabet] : k \in 0..n}

\* "a a a" and the phrase "a a", which occurs in it at offsets 0 and 2
s_aaa == <<"a", " ", "a", " ", "a">>
s_aa == <<"a", " ", "a">>

TextCases ==
    (StringsUpTo(MaxHaystack) \X StringsUpTo(MaxNeedle))
    \cup ({s_IUseJavaDaily, s_javascript, s_java \o <<" ">> \o s_javascript}
          \X {s_java, s_plusplus, <<>>, <<" ">>})
    \cup {<<s_aaa, s_aa>>}

\* no calculateKeywordMatch call and no normalizeKeyword call of their own
\* are pending
OrderIdle ==
    /\ reordered = <<>>
    /\ matchGiven = KeywordMatchThrew
    /\ matchReordered = KeywordMatchThrew
    /\ kpc = "idle"
    /\ rpc = "idle"
\* no entry point has been called on record
RepeatIdle == log = <<>>
\* no component uses useAchievementBank
BankIdle ==
    /\ storage = <<>>
    /\ writable = TRUE
    /\ achievements = <<>>
    /\ lastUpdated = <<>>
    /\ isLoaded = FALSE
    /\ queue = <<>>
    /\ effects = <<>>
    /\ call = Called(0, "", "", FALSE, 0)
    /\ nextId = 0
    /\ writes = 0
NormalizeIdle ==
    /\ input = <<>>
    /\ once = <<>>
    /\ twice = <<>>
    /\ npc = "idle"

TextInit ==
    /\ \E c \in TextCases : haystack = c[1] /\ needle = c[2]
    /\ occurrences = 0
    /\ tpc = "call"
    /\ resume = r_empty
    /\ job = j_noFields
    /\ answers = a_none
    /\ ats = ats_none
    /\ scored = Threw("")
    /\ gap = GapThrew("")
    /\ salary = SalaryRejected("")
    /\ pc = "idle"
    /\ gpc = "idle"
    /\ epc = "idle"
    /\ OrderIdle
    /\ NormalizeIdle
    /\ RepeatIdle
    /\ BankIdle

CountKeywordOccurrences ==
    /\ tpc = "call"
    /\ occurrences' = countKeywordOccurrences(haystack, needle)
    /\ tpc' = "done"
    /\ UNCHANGED <<haystack, needle>>
    /\ UNCHANGED <<args, scored, pc, gap, gpc, salary, epc>>
    /\ UNCHANGED <<ovars, nvars, lvars, bvars>>

TextNext == CountKeywordOccurrences

SpecText == TextInit /\ [][TextNext]_vars


(***************************************************************************)
(* The scoring specification: scoreResume called once on each case         *)
(***************************************************************************)
\* no countKeywordOccurrences call of its own is pending
TextIdle ==
    /\ haystack = <<>>
    /\ needle = <<>>
    /\ occurrences = 0
    /\ tpc = "idle"

Init ==
    /\ \E c \in ScoreCases : resume = c[1] /\ job = c[2]
    /\ answers = a_none
    /\ ats = ats_none
    /\ scored = Threw("")
    /\ gap = GapThrew("")
    /\ salary = SalaryRejected("")
    /\ pc = "call"
    /\ gpc = "idle"
    /\ epc = "idle"
    /\ OrderIdle
    /\ NormalizeIdle
    /\ TextIdle
    /\ RepeatIdle
    /\ BankIdle

ScoreResume ==
    /\ pc = "call"
    /\ scored' = scoreResume(resume, job)
    /\ pc' = "done"
    /\ UNCHANGED <<args, gap, gpc, salary, epc>>
    /\ UNCHANGED <<tvars, ovars, nvars, lvars, bvars>>

Next == ScoreResume

Spec == Init /\ [][Next]_vars


(***************************************************************************)
(* The entry-point specification: scoreResume, analyzeSkillsGap and        *)
(* estimateSalary, each called once, in any order, on the same arguments   *)
(***************************************************************************)
EntryInit ==
    /\ resume \in EntryResumes
    /\ job \in EntryJobs
    /\ answers \in EntryAnswers
    /\ ats \in EntryScores
    /\ scored = Threw("")
    /\ gap = GapThrew("")
    /\ salary = SalaryRejected("")
    /\ pc = "call"
    /\ gpc = "call"
    /\ epc = "call"
    /\ TextIdle
    /\ OrderIdle
    /\ NormalizeIdle
    /\ RepeatIdle
    /\ BankIdle

AnalyzeSkillsGap ==
    /\ gpc = "call"
    /\ gap' = analyzeSkillsGap(job, resume, answers)
    /\ gpc' = "done"
    /\ UNCHANGED <<args, scored, pc, salary, epc>>
    /\ UNCHANGED <<tvars, ovars, nvars, lvars, bvars>>

EstimateSalary ==
    /\ epc = "call"
    /\ salary' = estimateSalary(job, resume, ats, answers)
    /\ epc' = "done"
    /\ UNCHANGED <<args, scored, pc, gap, gpc>>
    /\ UNCHANGED <<tvars, ovars, nvars, lvars, bvars>>

EntryNext == ScoreResume \/ AnalyzeSkillsGap \/ EstimateSalary

SpecEntry == EntryInit /\ [][EntryNext]_vars

(***************************************************************************)
(* The gap specification: analyzeSkillsGap called once on each case        *)
(***************************************************************************)
GapInit ==
    /\ resume \in GapResumes
    /\ job \in GapJobs
    /\ answers \in GapAnswers
    /\ ats = ats_none
    /\ scored = Threw("")
    /\ gap = GapThrew("")
    /\ salary = SalaryRejected("")
    /\ pc = "idle"
    /\ gpc = "call"
    /\ epc = "idle"
    /\ TextIdle
    /\ OrderIdle
    /\ NormalizeIdle
    /\ RepeatIdle
    /\ BankIdle

GapNext == AnalyzeSkillsGap

SpecGap == GapInit /\ [][GapNext]_vars

(***************************************************************************)
(* The salary specification: estimateSalary called once on each case       *)
(***************************************************************************)
SalaryInit ==
    /\ resume = r_empty
    /\ job \in SalaryJobs
    /\ answers \in SalaryAnswers
    /\ ats \in SalaryScores
    /\ scored = Threw("")
    /\ gap = GapThrew("")
    /\ salary = SalaryRejected("")
    /\ pc = "idle"
    /\ gpc = "idle"
    /\ epc = "call"
    /\ TextIdle
    /\ OrderIdle
    /\ NormalizeIdle
    /\ RepeatIdle
    /\ BankIdle

SalaryNext == EstimateSalary

SpecSalary == SalaryInit /\ [][SalaryNext]_vars

(***************************************************************************)
(* The ordering specification: calculateKeywordMatch called on the         *)
(* resume's text with the job's atsKeywords and with the same elements in  *)
(* another order                                                           *)
(***************************************************************************)
OrderInit ==
    /\ resume \in OrderResumes
    /\ \E atsKeywords \in SeqsUpTo(OrderPool, MaxOrderKeywords) :
           /\ job = Job(Some(atsKeywords), Undefined)
           /\ reordered \in Reorderings(atsKeywords)
    /\ matchGiven = KeywordMatchThrew
    /\ matchReordered = KeywordMatchThrew
    /\ kpc = "call"
    /\ rpc = "idle"
    /\ answers = a_none
    /\ ats = ats_none
    /\ scored = Threw("")
    /\ gap = GapThrew("")
    /\ salary = SalaryRejected("")
    /\ pc = "idle"
    /\ gpc = "idle"
    /\ epc = "idle"
    /\ TextIdle
    /\ NormalizeIdle
    /\ RepeatIdle
    /\ BankIdle

CalculateKeywordMatch ==
    /\ kpc = "call"
    /\ matchGiven' = keywordMatchOutcome(extractResumeText(resume),
                                         Get(job.atsKeywords))
    /\ kpc' = "done"
    /\ rpc' = "call"
    /\ UNCHANGED <<reordered, matchReordered>>
    /\ UNCHANGED <<args, scored, pc, gap, gpc, salary, epc>>
    /\ UNCHANGED <<tvars, nvars, lvars, bvars>>

CalculateKeywordMatchReordered ==
    /\ rpc = "call"
    /\ matchReordered' = keywordMatchOutcome(extractResumeText(resume),
                                             reordered)
    /\ rpc' = "done"
    /\ UNCHANGED <<reordered, matchGiven, kpc>>
    /\ UNCHANGED <<args, scored, pc, gap, gpc, salary, epc>>
    /\ UNCHANGED <<tvars, nvars, lvars, bvars>>

OrderNext == CalculateKeywordMatch \/ CalculateKeywordMatchReordered

SpecOrder == OrderInit /\ [][OrderNext]_vars

(***************************************************************************)
(* The normalizing specification: normalizeKeyword applied to a string and *)
(* then to its own result                                                  *)
(***************************************************************************)
NormalizeInit ==
    /\ input \in Inputs
    /\ once = <<>>
    /\ twice = <<>>
    /\ npc = "call"
    /\ resume = r_empty
    /\ job = j_noFields
    /\ answers = a_none
    /\ ats = ats_none
    /\ scored = Threw("")
    /\ gap = GapThrew("")
    /\ salary = SalaryRejected("")
    /\ pc = "idle"
    /\ gpc = "idle"
    /\ epc = "idle"
    /\ TextIdle
    /\ OrderIdle
    /\ RepeatIdle
    /\ BankIdle

NormalizeKeyword ==
    /\ npc = "call"
    /\ once' = normalizeKeyword(input)
    /\ npc' = "once"
    /\ UNCHANGED <<input, twice>>
    /\ UNCHANGED <<args, scored, pc, gap, gpc, salary, epc>>
    /\ UNCHANGED <<tvars, ovars, lvars, bvars>>

NormalizeKeywordAgain ==
    /\ npc = "once"
    /\ twice' = normalizeKeyword(once)
    /\ npc' = "twice"
    /\ UNCHANGED <<input, once>>
    /\ UNCHANGED <<args, scored, pc, gap, gpc, salary, epc>>
    /\ UNCHANGED <<tvars, ovars, lvars, bvars>>

NormalizeNext == NormalizeKeyword \/ NormalizeKeywordAgain

SpecNormalize == NormalizeInit /\ [][NormalizeNext]_vars


(***************************************************************************)
(* The repeated-call specification: scoreResume, analyzeSkillsGap and      *)
(* estimateSalary called again and again, in any order, by a caller that   *)
(* may pass other arguments between two calls                              *)
(***************************************************************************)
MaxCalls == 3

RepeatArguments ==
    {<<r_new, j_all, a_text, AtsScore(85)>>,
     <<r_full, j_senior, a_years0, AtsScore(0)>>}

Call(fn, before, result, after) ==
    [fn |-> fn, before |-> before, result |-> result, after |-> after]

RepeatInit ==
    /\ \E a \in RepeatArguments :
        /\ resume = a[1]
        /\ job = a[2]
        /\ answers = a[3]
        /\ ats = a[4]
    /\ scored = Threw("")
    /\ gap = GapThrew("")
    /\ salary = SalaryRejected("")
    /\ pc = "idle"
    /\ gpc = "idle"
    /\ epc = "idle"
    /\ log = <<>>
    /\ TextIdle
    /\ OrderIdle
    /\ NormalizeIdle
    /\ BankIdle

\* none of the three functions assigns to an argument or to anything an
\* argument refers to, and the module keeps no variable of its own
ScoreResumeAgain ==
    /\ Len(log) < MaxCalls
    /\ UNCHANGED <<args, gap, salary, pc, gpc, epc>>
    /\ scored' = scoreResume(resume, job)
    /\ log' = Append(log, Call("scoreResume", args, scored', args'))
    /\ UNCHANGED <<tvars, ovars, nvars, bvars>>

AnalyzeSkillsGapAgain ==
    /\ Len(log) < MaxCalls
    /\ UNCHANGED <<args, scored, salary, pc, gpc, epc>>
    /\ gap' = analyzeSkillsGap(job, resume, answers)
    /\ log' = Append(log, Call("analyzeSkillsGap", args, gap', args'))
    /\ UNCHANGED <<tvars, ovars, nvars, bvars>>

EstimateSalaryAgain ==
    /\ Len(log) < MaxCalls
    /\ UNCHANGED <<args, scored, gap, pc, gpc, epc>>
    /\ salary' = estimateSalary(job, resume, ats, answers)
    /\ log' = Append(log, Call("estimateSalary", args, salary', args'))
    /\ UNCHANGED <<tvars, ovars, nvars, bvars>>

\* the caller turns to other arguments for its next calls
PassOtherArguments ==
    /\ Len(log) < MaxCalls
    /\ \E a \in RepeatArguments :
        /\ a # args
        /\ resume' = a[1]
        /\ job' = a[2]
        /\ answers' = a[3]
        /\ ats' = a[4]
    /\ UNCHANGED <<scored, gap, salary, pc, gpc, epc, log>>
    /\ UNCHANGED <<tvars, ovars, nvars, bvars>>

RepeatNext ==
    \/ ScoreResumeAgain
    \/ AnalyzeSkillsGapAgain
    \/ EstimateSalaryAgain
    \/ PassOtherArguments

SpecRepeat == RepeatInit /\ [][RepeatNext]_vars

(***************************************************************************)
(* The achievement bank specification: one component that uses             *)
(* useAchievementBank, from its first render on.  The effects of a render  *)
(* run in the order of their declaration and before the next render; the   *)
(* methods of the hook may be called at any moment.                        *)
(***************************************************************************)
others ==
    <<tvars, args, scored, pc, gap, gpc, salary, epc, ovars, nvars, lvars>>

BankInit ==
    /\ storage \in StoredItems
    /\ writable \in BOOLEAN
    /\ achievements = <<>>
    /\ lastUpdated = Undefined
    /\ isLoaded = FALSE
    /\ queue = <<>>
    /\ effects = <<"load", "save">>
    /\ call = Called(0, "", "", FALSE, 0)
    /\ nextId = 0
    /\ writes = 0
    /\ resume = r_empty
    /\ job = j_noFields
    /\ answers = a_none
    /\ ats = ats_none
    /\ scored = Threw("")
    /\ gap = GapThrew("")
    /\ salary = SalaryRejected("")
    /\ pc = "idle"
    /\ gpc = "idle"
    /\ epc = "idle"
    /\ TextIdle
    /\ OrderIdle
    /\ NormalizeIdle
    /\ RepeatIdle

\* the effect of lines 60-65
LoadFromLocalStorage ==
    /\ effects # <<>>
    /\ Head(effects) = "load"
    /\ LET stored == getInitialState(storage)
       IN  queue' = queue \o <<SetAchievements(stored.achievements),
                               SetLastUpdated(stored.lastUpdated),
                               SetIsLoaded>>
    /\ effects' = Tail(effects)
    /\ UNCHANGED <<storage, writable, achievements, lastUpdated, isLoaded,
                   call, nextId, writes>>
    /\ UNCHANGED others

\* the effect of lines 68-81 without the test of isLoaded
SaveToLocalStorage_unguarded ==
    /\ effects # <<>>
    /\ Head(effects) = "save"
    /\ IF writable
           THEN /\ writes' = writes + 1
                /\ storage' = Some(StoredItem("object", Some(achievements),
                                              Some(writes')))
                /\ queue' = Append(queue, SetLastUpdated(Some(writes')))
       ELSE UNCHANGED <<storage, queue, writes>>
    /\ effects' = Tail(effects)
    /\ UNCHANGED <<writable, achievements, lastUpdated, isLoaded, call, nextId>>
    /\ UNCHANGED others

\* the effect of lines 68-81, with the achievements and isLoaded of the
\* render it belongs to; a setItem that throws is caught
SaveToLocalStorage ==
    /\ effects # <<>>
    /\ Head(effects) = "save"
    /\ IF isLoaded /\ writable
           THEN /\ writes' = writes + 1
                /\ storage' = Some(StoredItem("object", Some(achievements),
                                              Some(writes')))
                /\ queue' = Append(queue, SetLastUpdated(Some(writes')))
       ELSE UNCHANGED <<storage, queue, writes>>
    /\ effects' = Tail(effects)
    /\ UNCHANGED <<writable, achievements, lastUpdated, isLoaded, call, nextId>>
    /\ UNCHANGED others

\* a render: the queued updates give the new state, and the save effect is
\* due if achievements or isLoaded is not what it was
Render ==
    /\ effects = <<>>
    /\ queue # <<>>
    /\ LET next == applyUpdates([achievements |-> achievements,
                                 lastUpdated |-> lastUpdated,
                                 isLoaded |-> isLoaded], queue)
           newList == \E i \in 1..Len(queue) : queue[i].kind \in ListUpdates
       IN  /\ achievements' = next.achievements
           /\ lastUpdated' = next.lastUpdated
           /\ isLoaded' = next.isLoaded
           /\ effects' = IF newList \/ next.isLoaded # isLoaded
                            THEN <<"save">> ELSE <<>>
    /\ queue' = <<>>
    /\ UNCHANGED <<storage, writable, call, nextId, writes>>
    /\ UNCHANGED others

AddAchievement ==
    /\ call.n < MaxOps
    /\ nextId' = nextId + 1
    /\ queue' = Append(queue, AppendAchievements(<<Achievement(nextId', "a")>>))
    /\ call' = Called(call.n + 1, "addAchievement", "", FALSE, 0)
    /\ UNCHANGED <<storage, writable, achievements, lastUpdated, isLoaded,
                   effects, writes>>
    /\ UNCHANGED others

UpdateAchievement ==
    /\ call.n < MaxOps
    /\ \E id \in 0..nextId :
           queue' = Append(queue, MapAchievements(id, "u"))
    /\ call' = Called(call.n + 1, "updateAchievement", "", FALSE, 0)
    /\ UNCHANGED <<storage, writable, achievements, lastUpdated, isLoaded,
                   effects, nextId, writes>>
    /\ UNCHANGED others

DeleteAchievement ==
    /\ call.n < MaxOps
    /\ \E id \in 0..nextId :
           queue' = Append(queue, FilterAchievements(id))
    /\ call' = Called(call.n + 1, "deleteAchievement", "", FALSE, 0)
    /\ UNCHANGED <<storage, writable, achievements, lastUpdated, isLoaded,
                   effects, nextId, writes>>
    /\ UNCHANGED others

ImportAchievements ==
    /\ call.n < MaxOps
    /\ \E jsonString \in ImportTexts :
           IF importThrows(jsonString)
               THEN /\ call' = Called(call.n + 1, "importAchievements",
                                      jsonString.json, FALSE, 0)
                    /\ UNCHANGED <<queue, nextId>>
           ELSE LET new == newAchievements(jsonString, nextId)
                IN  /\ nextId' = nextId + Len(new)
                    /\ queue' = Append(queue, AppendAchievements(new))
                    /\ call' = Called(call.n + 1, "importAchievements",
                                      jsonString.json, TRUE, Len(new))
    /\ UNCHANGED <<storage, writable, achievements, lastUpdated, isLoaded,
                   effects, writes>>
    /\ UNCHANGED others

ClearAll ==
    /\ call.n < MaxOps
    /\ queue' = Append(queue, SetAchievements(<<>>))
    /\ call' = Called(call.n + 1, "clearAll", "", FALSE, 0)
    /\ UNCHANGED <<storage, writable, achievements, lastUpdated, isLoaded,
                   effects, nextId, writes>>
    /\ UNCHANGED others

BankNext ==
    \/ LoadFromLocalStorage
    \/ SaveToLocalStorage
    \/ Render
    \/ AddAchievement
    \/ UpdateAchievement
    \/ DeleteAchievement
    \/ ImportAchievements
    \/ ClearAll

\* React renders after a state update and runs the effects of a render
BankFairness ==
    /\ WF_vars(LoadFromLocalStorage)
    /\ WF_vars(SaveToLocalStorage)
    /\ WF_vars(Render)

SpecBank == BankInit /\ [][BankNext]_vars /\ BankFairness
(***************************************************************************)
(* Properties of scoreResume, checked under Spec                           *)
(***************************************************************************)
Returned == pc = "done" /\ scored.status = "returned"
Abs(n) == IF n >= 0 THEN n ELSE -n
Range(s) == {s[i] : i \in 1..Len(s)}

\* the list read by jobAnalysis.atsKeywords || [] has only elements that
\* carry a keyword and a non-negative frequency
FrequenciesGiven(atsKeywords) ==
    \A i \in 1..Len(atsKeywords) :
        /\ ~atsKeywords[i].isNull
        /\ Has(atsKeywords[i].keyword)
        /\ Has(atsKeywords[i].frequency)
        /\ Get(atsKeywords[i].frequency) >= 0

C2_KeywordScoreUsesGivenFrequencies ==
    LET atsKeywords == OrEmpty(job.atsKeywords)
        frequency(i) == Get(atsKeywords[i].frequency)
        count(i) == countKeywordOccurrences(scored.resumeText,
                                            Get(atsKeywords[i].keyword))
        total == SumSeq([i \in 1..Len(atsKeywords) |-> frequency(i)])
        matched == SumSeq([i \in 1..Len(atsKeywords) |->
                               Min(count(i), 3) * frequency(i)])
    IN  (/\ Returned
         /\ atsKeywords # <<>>
         /\ FrequenciesGiven(atsKeywords)
         /\ total > 0)
        => scored.report.keywordMatchScore
               = Min(10000, (2 * matched * 10000 + total) \div (2 * total))

\* C3: with an empty or absent atsKeywords list the keyword result is
\* score 0, no missing keywords and no keyword counts, whatever the
\* resume text.
C3_EmptyKeywordsScoreZero ==
    (Returned /\ OrEmpty(job.atsKeywords) = <<>>) =>
        /\ scored.keywordMatch
               = [score |-> 0, missingKeywords |-> <<>>, keywordCounts |-> {}]
        /\ scored.report.keywordMatchScore = 0
        /\ scored.report.missingKeywords = <<>>

\* an empty atsKeywords array scored against a resume with text
C3_Witness ==
    /\ Returned
    /\ job.atsKeywords = Some(<<>>)
    /\ scored.resumeText # <<>>
    /\ scored.report.keywordMatchScore = 0

\* C4: with an empty requiredSkills list the coverage is score 100 with no
\* missing and no found skills; otherwise the score is
\* found / required * 100 (to two decimals) and every required skill is in
\* exactly one of foundSkills and missingSkills.
C4_SkillsCoverage ==
    Returned =>
        LET requiredSkills == OrEmpty(job.requiredSkills)
            c == scored.skillsCoverage
            n == Len(requiredSkills)
        IN  /\ n = 0 =>
                   c = [score |-> 10000, missingSkills |-> <<>>,
                        foundSkills |-> <<>>]
            /\ n > 0 =>
                   /\ 2 * Abs(c.score * n - 10000 * Len(c.foundSkills)) <= n
                   /\ Len(c.foundSkills) + Len(c.missingSkills) = n
                   /\ \A skill \in Range(requiredSkills) :
                          (skill \in Range(c.foundSkills))
                              # (skill \in Range(c.missingSkills))
            /\ scored.report.skillsCoverageScore = c.score
            /\ scored.report.missingSkills = c.missingSkills

\* some required skills found and some missing
C4_Witness ==
    /\ Returned
    /\ scored.skillsCoverage.foundSkills # <<>>
    /\ scored.skillsCoverage.missingSkills # <<>>
    /\ scored.report.skillsCoverageScore \in 1..9999

\* C5: the three sub-scores of a returned report lie in [0,100] when the
\* keyword frequencies are non-negative.
C5_SubScoresInRange ==
    (/\ Returned
     /\ \A i \in 1..Len(OrEmpty(job.atsKeywords)) :
            LET f == Get(job.atsKeywords)[i].frequency
            IN  Has(f) => Get(f) >= 0)
    => /\ scored.report.keywordMatchScore \in 0..10000
       /\ scored.report.skillsCoverageScore \in 0..10000
       /\ scored.report.contentQualityScore \in 0..10000

\* a keyword that occurs twice, so that the weighted ratio is 200 before
\* the cap
C5_Witness ==
    /\ Returned
    /\ Len(OrEmpty(job.atsKeywords)) = 1
    /\ countKeywordOccurrences(scored.resumeText,
                               Get(Get(job.atsKeywords)[1].keyword)) = 2
    /\ scored.report.keywordMatchScore = 10000

\* C9: scoreResume returns a report for every resume object and job
\* object, whatever sub-fields their array elements lack.
C9_NeverRaisesOnMalformedElement ==
    (pc = "done" /\ ~NotAnObject(resume) /\ ~NotAnObject(job))
        => scored.status = "returned"

\* the resume with every absent section replaced by an empty one
WithEmptySections(resumeContent) ==
    [kind |-> resumeContent.kind,
     summary |-> Some(OrEmpty(resumeContent.summary)),
     experience |-> Some(OrEmpty(resumeContent.experience)),
     skills |-> IF Has(resumeContent.skills) THEN resumeContent.skills
                ELSE Some(noSkills),
     education |-> Some(OrEmpty(resumeContent.education)),
     additionalSections |-> Some(OrEmpty(resumeContent.additionalSections))]

\* C10: a resume object with any subset of its five sections absent is
\* scored without an exception (its array elements and the job's being
\* well formed), the extracted text is that of the resume with the absent
\* sections empty, and the resume without any section has no text and
\* content quality 0.
C10_AbsentSectionsContributeNothing ==
    (/\ pc = "done"
     /\ ~NotAnObject(resume)
     /\ ~NotAnObject(job)
     /\ ~extractThrows(resume)
     /\ ~keywordMatchThrows(OrEmpty(job.atsKeywords)))
    => /\ scored.status = "returned"
       /\ scored.resumeText = extractResumeText(WithEmptySections(resume))
       /\ resume = r_empty =>
              /\ scored.resumeText = <<>>
              /\ scored.report.contentQualityScore = 0

\* summary and skills absent, experience present
C10_Witness ==
    /\ Returned
    /\ ~Has(resume.summary)
    /\ ~Has(resume.skills)
    /\ Has(resume.experience)
    /\ OrEmpty(resume.experience) # <<>>
    /\ scored.resumeText # <<>>

(***************************************************************************)
(* Properties of countKeywordOccurrences, checked under SpecText           *)
(***************************************************************************)
\* the offsets of the normalized text t at which the normalized keyword k
\* stands as a whole word or phrase: no word character before or after it
Standalone(t, k) ==
    {p \in 0..(Len(t) - Len(k)) :
        /\ SubSeq(t, p + 1, p + Len(k)) = k
        /\ p > 0 => ~IsWordChar(t[p])
        /\ p + Len(k) < Len(t) => ~IsWordChar(t[p + Len(k) + 1])}

\* C6: countKeywordOccurrences counts whole-word matches only: nothing
\* that is part of a longer word is counted, and every standalone
\* occurrence is counted once, case-insensitively (occurrences of a phrase
\* that overlap each other are counted from the left, without overlap).
C6_WholeWordCount ==
    LET t == normalizeKeyword(haystack)
        k == normalizeKeyword(needle)
        standalone == Standalone(t, k)
    IN  (tpc = "done" /\ k # <<>>) =>
            /\ occurrences <= Cardinality(standalone)
            /\ standalone # {} => occurrences >= 1
            /\ (\A p, q \in standalone : p < q => p + Len(k) <= q)
                   => occurrences = Cardinality(standalone)
            /\ (haystack = s_IUseJavaDaily /\ needle = s_java)
                   => occurrences = 1
            /\ (haystack = s_javascript /\ needle = s_java)
                   => occurrences = 0

\* "java javascript" searched for "java": one occurrence
C6_Witness ==
    /\ tpc = "done"
    /\ haystack = s_java \o <<" ">> \o s_javascript
    /\ needle = s_java
    /\ occurrences = 1

\* C7: a needle that is empty after normalization has 0 occurrences in
\* every haystack.
C7_EmptyNeedleCountsZero ==
    (tpc = "done" /\ normalizeKeyword(needle) = <<>>) => occurrences = 0

(***************************************************************************)
(* Properties of the three entry points, checked under SpecEntry           *)
(***************************************************************************)
\* the messages of the argument checks
DescriptiveErrors ==
    {"resumeContent must be a valid object",
     "jobAnalysis must be a valid object"}

\* C8: scoreResume, analyzeSkillsGap and estimateSalary each end in a
\* descriptive error whenever the job or the resume argument is missing,
\* is not an object, or the job lacks its requiredSkills array.
C8_EntryPointsRejectInvalidArguments ==
    (\/ NotAnObject(job)
     \/ NotAnObject(resume)
     \/ ~Has(job.requiredSkills))
    => /\ pc = "done" =>
              scored.status = "threw" /\ scored.error \in DescriptiveErrors
       /\ gpc = "done" =>
              gap.status = "threw" /\ gap.error \in DescriptiveErrors
       /\ epc = "done" =>
              salary.status = "rejected" /\ salary.error \in DescriptiveErrors

(***************************************************************************)
(* Skills categories in scoreResume, checked under Spec                    *)
(***************************************************************************)
\* the category names a skills object can carry
SkillCategories == DOMAIN noSkills

\* the entries of the resume's skills category c; none when it is absent
categoryEntries(resumeContent, c) == OrEmpty(skillsOrNone(resumeContent)[c])

\* C11: the extracted text includes every entry of every skills-category
\* array present on the resume, whatever the category's name, so an ATS
\* keyword that occurs in some category has a count above 0 and is not
\* among missingKeywords.
C11_EveryCategoryIsExtracted ==
    Returned =>
        \A c \in SkillCategories :
            LET entries == categoryEntries(resume, c)
                atsKeywords == OrEmpty(job.atsKeywords)
            IN  /\ \A e \in Range(entries) :
                       includes(scored.resumeText, trim(toLowerCase(e)))
                /\ \A i \in 1..Len(atsKeywords) :
                       LET keyword == Get(atsKeywords[i].keyword)
                       IN  countKeywordOccurrences(joinSpace(entries), keyword) > 0
                           => /\ countKeywordOccurrences(scored.resumeText,
                                                         keyword) > 0
                              /\ keyword \notin
                                     Range(scored.report.missingKeywords)

\* C12: a required skill whose normalized form equals, contains or is
\* contained in a normalized entry of any skills-category array of the
\* resume is in foundSkills and not in missingSkills, whatever the
\* category's name.
C12_SkillOfAnyCategoryIsFound ==
    Returned =>
        \A c \in SkillCategories :
            \A skill \in Range(OrEmpty(job.requiredSkills)) :
                someOverlaps(categoryEntries(resume, c), normalizeKeyword(skill))
                => /\ skill \in Range(scored.skillsCoverage.foundSkills)
                   /\ skill \notin Range(scored.report.missingSkills)

(***************************************************************************)
(* The end-to-end scenario of scoreResume, checked under Spec              *)
(***************************************************************************)
\* no experience bullets, no skills in any category, and no summary text
BareResume(resumeContent) ==
    /\ allBullets(OrEmpty(resumeContent.experience)) = <<>>
    /\ \A c \in SkillCategories : categoryEntries(resumeContent, c) = <<>>
    /\ ~Truthy(resumeContent.summary)

\* 10 ATS keywords and 5 required skills, each a non-empty word
ScenarioJob(jobAnalysis) ==
    LET atsKeywords == OrEmpty(jobAnalysis.atsKeywords)
        requiredSkills == OrEmpty(jobAnalysis.requiredSkills)
    IN  /\ Len(atsKeywords) = 10
        /\ Len(requiredSkills) = 5
        /\ FrequenciesGiven(atsKeywords)
        /\ \A i \in 1..10 :
               normalizeKeyword(Get(atsKeywords[i].keyword)) # <<>>
        /\ \A i \in 1..5 : normalizeKeyword(requiredSkills[i]) # <<>>

\* the two messages of the scenario: "CRITICAL: Add these high-priority
\* keywords ..." naming the first 8 missing keywords and "IMPORTANT: Add
\* these required skills ..." naming the missing skills
CriticalMessages(report) ==
    {Suggestion("keywordsCritical",
                slice0(report.missingKeywords, CriticalNames)),
     Suggestion("skillsImportant",
                slice0(report.missingSkills, CriticalNames))}

\* none of the job's keywords and skills occurs in the resume text
NothingOccurs(resumeText, jobAnalysis) ==
    /\ \A i \in 1..Len(OrEmpty(jobAnalysis.atsKeywords)) :
           countKeywordOccurrences(
               resumeText, Get(Get(jobAnalysis.atsKeywords)[i].keyword)) = 0
    /\ \A skill \in Range(OrEmpty(jobAnalysis.requiredSkills)) :
           ~includes(normalizeKeyword(resumeText), normalizeKeyword(skill))

GapReturned == gpc = "done" /\ gap.status = "returned"

\* the lower-cased, trimmed entries of every skills category of the resume
EveryCategorySkill(resumeContent) ==
    UNION {{trim(toLowerCase(e)) : e \in Range(categoryEntries(resumeContent, c))} :
              c \in SkillCategories}

\* the required skill equals a resume skill, is a substring of one,
\* contains one, shares a synonym group with one, or occurs in the
\* concatenated free-text answers
ShouldMatch(resumeContent, userAnswers, skill) ==
    LET skillLower == trim(toLowerCase(skill))
    IN  \/ \E rs \in EveryCategorySkill(resumeContent) :
               \/ rs = skillLower
               \/ includes(rs, skillLower)
               \/ includes(skillLower, rs)
               \/ areRelatedSkills(rs, skillLower)
        \/ includes(userExperienceTextOf(userAnswers), skillLower)

\* the skills named by the entries of report.skills.missing
MissingSkillNames(report) ==
    {report.skills.missing[i].skill : i \in 1..Len(report.skills.missing)}

\* C14: every required skill is classified exactly once, as matched if and
\* only if it equals, contains or is contained in a skill of any skills
\* category of the resume, shares a synonym group with one, or occurs in
\* the free-text answers, and as missing otherwise.
C14_MatchedIffInAnyCategory ==
    GapReturned =>
        \A skill \in Range(OrEmpty(job.requiredSkills)) :
            LET isMatched == skill \in Range(gap.report.skills.matched)
                isMissing == skill \in MissingSkillNames(gap.report)
            IN  /\ isMatched # isMissing
                /\ isMatched <=> ShouldMatch(resume, answers, skill)

\* the related concepts of the skill that the user's free text mentions
ConceptsInUserText(userAnswers, skill) ==
    textHints(toLowerCase(skill), userExperienceTextOf(userAnswers))

\* C15: a required skill that is classified missing and none of whose
\* related concepts appears in the user's free text has relatedExperience
\* null, whatever the resume's experience bullets say.
C15_NoConceptInUserTextGivesNull ==
    GapReturned =>
        \A i \in 1..Len(gap.report.skills.missing) :
            LET entry == gap.report.skills.missing[i]
            IN  ConceptsInUserText(answers, entry.skill) = <<>>
                    => ~Has(entry.relatedExperience)

\* C16: skills.matchPercentage and qualifications.matchPercentage are the
\* rounded percentages of matched required skills and matched preferred
\* qualifications, 100 for an empty list, and overallMatchPercentage is an
\* integer of 0..100 within one half of 0.7 times the first plus 0.3 times
\* the second; 25 and 50 give 33.
C16_OverallMatchIsWeightedRound ==
    GapReturned =>
        LET report == gap.report
            nRequired == Len(OrEmpty(job.requiredSkills))
            nPreferred == Len(OrEmpty(job.preferredQualifications))
            skillPct == report.skills.matchPercentage
            qualPct == report.qualifications.matchPercentage
        IN  /\ Len(report.skills.matched) + Len(report.skills.missing)
                   = nRequired
            /\ Len(report.qualifications.matched)
                   + Len(report.qualifications.missing) = nPreferred
            /\ nRequired = 0 => skillPct = 100
            /\ nRequired > 0 =>
                   2 * Abs(skillPct * nRequired
                           - 100 * Len(report.skills.matched)) <= nRequired
            /\ nPreferred = 0 => qualPct = 100
            /\ nPreferred > 0 =>
                   2 * Abs(qualPct * nPreferred
                           - 100 * Len(report.qualifications.matched))
                       <= nPreferred
            /\ report.overallMatchPercentage \in 0..100
            /\ Abs(10 * report.overallMatchPercentage
                   - (7 * skillPct + 3 * qualPct)) <= 5
            /\ (skillPct = 25 /\ qualPct = 50)
                   => report.overallMatchPercentage = 33

\* one of four required skills and one of two preferred qualifications
\* matched: 17.5 + 15 = 32.5 rounds to 33
C16_Witness ==
    /\ GapReturned
    /\ gap.report.skills.matchPercentage = 25
    /\ gap.report.qualifications.matchPercentage = 50
    /\ gap.report.overallMatchPercentage = 33

(***************************************************************************)
(* Properties of estimateSalary, checked under SpecSalary                  *)
(***************************************************************************)
SalaryResolved == epc = "done" /\ salary.status = "resolved"

\* userAnswers states the years of experience under one of its two keys,
\* with a value that is not 0 and not ''
YearsStated(userAnswers) ==
    \E i \in 1..Len(userAnswers.entries) :
        /\ userAnswers.entries[i].key
               \in {"years_of_experience", "yearsOfExperience"}
        /\ valueTruthy(userAnswers.entries[i])

\* C17: confidence is an integer that starts at 50, gains 10 for an
\* industry, 10 for a job level, 10 for more than 3 required skills, 10 for
\* stated years of experience and 5 for culture indicators, and never
\* exceeds 85.
C17_ConfidenceIsCappedSum ==
    SalaryResolved =>
        LET gains ==
                (IF Truthy(job.industry) THEN 10 ELSE 0)
                + (IF Truthy(job.jobLevel) THEN 10 ELSE 0)
                + (IF Len(OrEmpty(job.requiredSkills)) > 3 THEN 10 ELSE 0)
                + (IF YearsStated(answers) THEN 10 ELSE 0)
                + (IF OrEmpty(job.companyCultureIndicators) # <<>>
                       THEN 5 ELSE 0)
        IN  /\ salary.report.confidence \in 50..85
            /\ salary.report.confidence = Min(50 + gains, 85)

\* all five present: 50 + 45 is capped at 85
C17_Witness ==
    /\ SalaryResolved
    /\ Truthy(job.industry)
    /\ Truthy(job.jobLevel)
    /\ Len(OrEmpty(job.requiredSkills)) > 3
    /\ YearsStated(answers)
    /\ OrEmpty(job.companyCultureIndicators) # <<>>
    /\ salary.report.confidence = 85

\* C18: every entry of the factors list of a salary report has an impact
\* that is one of positive, negative and neutral.
C18_ImpactIsOneOfThree ==
    SalaryResolved =>
        \A i \in 1..Len(salary.report.factors) :
            salary.report.factors[i].impact
                \in {"positive", "negative", "neutral"}

(***************************************************************************)
(* Keyword order, checked under SpecOrder                                  *)
(***************************************************************************)
\* C19: the keyword score is the same for the atsKeywords list in any
\* order of its elements, for every resume text; a list on which
\* calculateKeywordMatch throws makes it throw in every order, and the
\* same keywords are missing.
C19_KeywordScoreIgnoresOrder ==
    (kpc = "done" /\ rpc = "done") =>
        /\ matchGiven.status = matchReordered.status
        /\ matchGiven.result.score = matchReordered.result.score
        /\ Range(matchGiven.result.missingKeywords)
               = Range(matchReordered.result.missingKeywords)

\* three keywords of different weights, one of them not in the text,
\* scored in two different orders
C19_Witness ==
    /\ kpc = "done"
    /\ rpc = "done"
    /\ Len(reordered) = 3
    /\ reordered # Get(job.atsKeywords)
    /\ reordered[1] # reordered[2]
    /\ matchGiven.status = "returned"
    /\ matchGiven.result.score \in 1..9999
    /\ matchGiven.result.score = matchReordered.result.score

(***************************************************************************)
(* normalizeKeyword, checked under SpecNormalize                           *)
(***************************************************************************)
\* C20: normalizeKeyword is idempotent: applied to its own result it
\* returns that result.
C20_NormalizeIsIdempotent == npc = "twice" => twice = once

\* a string that normalizeKeyword changes into a non-empty one
C20_Witness ==
    /\ npc = "twice"
    /\ once # input
    /\ once # <<>>
    /\ twice = once


(***************************************************************************)
(* Claims on repeated calls, the salary multipliers, the suggestion list,  *)
(* keyword stuffing, the overall recommendations and the related           *)
(* experience                                                              *)
(***************************************************************************)

\* the calls on record that come in this order: an earlier and a later call
\* of the same function with the same arguments
SameCallTwice ==
    {p \in (1..Len(log)) \X (1..Len(log)) :
        /\ p[1] < p[2]
        /\ log[p[1]].fn = log[p[2]].fn
        /\ log[p[1]].before = log[p[2]].before}

C22_AtsMultiplierFollowsReportScore ==
    (SalaryResolved /\ ats.kind = "object" /\ Has(ats.overallScore)) =>
        LET overallScore == Get(ats.overallScore)
        IN  salary.used.atsMultiplier =
                IF overallScore >= 80 THEN 105
                ELSE IF overallScore >= 60 THEN 100
                ELSE 95

\* the non-negative integer userAnswers states as years of experience, under
\* the one of the two keys it has
StatedYearsNumbers(userAnswers) ==
    {userAnswers.entries[i].num : i \in
        {i \in 1..Len(userAnswers.entries) :
            /\ Len(userAnswers.entries) = 1
            /\ userAnswers.entries[i].key
                   \in {"years_of_experience", "yearsOfExperience"}
            /\ ~userAnswers.entries[i].isString
            /\ userAnswers.entries[i].num >= 0}}

\* the job level read by estimateSalary: jobAnalysis.jobLevel || 'mid'
LevelOf(jobAnalysis) ==
    IF Truthy(jobAnalysis.jobLevel) THEN Get(jobAnalysis.jobLevel) ELSE l_mid

\* C23: for every stated number of years that is a non-negative integer, 0
\* included, the experience bonus is max(0, (years - baseYears) * 0.02) with
\* base years 1, 3 and 6 for the levels entry, mid and senior.
C23_ExperienceBonusFollowsStatedYears ==
    (SalaryResolved /\ LevelOf(job) \in {l_entry, l_mid, l_senior}) =>
        \A years \in StatedYearsNumbers(answers) :
            LET baseYearsForLevel ==
                    IF LevelOf(job) = l_entry THEN 1
                    ELSE IF LevelOf(job) = l_mid THEN 3
                    ELSE 6
            IN  salary.used.experienceBonus =
                    Max(0, (years - baseYearsForLevel) * 2)

HolisticRemarks == {"restructure", "goodButImprove", "greatJob"}

\* the holistic remark of the band overallScore lies in
RemarkOfBand(overallScore) ==
    IF overallScore < 60 THEN "restructure"
    ELSE IF overallScore < 80 THEN "goodButImprove"
    ELSE "greatJob"

\* C24: the suggestions hold exactly one holistic remark, the one of the
\* band of overallScore (below 60, 60 to below 80, 80 and above), and that
\* remark is the last entry of the list.
C24_HolisticRemarkIsLast ==
    Returned =>
        LET suggestions == scored.report.suggestions
            remarks == {i \in 1..Len(suggestions) :
                            suggestions[i].id \in HolisticRemarks}
        IN  /\ Cardinality(remarks) = 1
            /\ suggestions[Len(suggestions)]
                   = Plain(RemarkOfBand(scored.report.overallScore))

\* the suggestions with one of the given wordings, in the order of the list
Worded(suggestions, ids) == SelectSeq(suggestions, LAMBDA s : s.id \in ids)

\* missing holds the items of given that it names, in the order of given
InInputOrder(missing, given) ==
    missing = SelectSeq(given, LAMBDA item : item \in Range(missing))

\* the naming suggestions a score and its missing list call for: below 75
\* the critical one with the first 8 names, from 75 to below the soft bound
\* the softer one with the first 3, from the soft bound on none; the list is
\* not empty below the soft bound
NamingTier(score, softBelow, missing, critical, soft, naming) ==
    /\ score < softBelow => missing # <<>>
    /\ naming =
        IF score < 7500 THEN <<Suggestion(critical, slice0(missing, 8))>>
        ELSE IF score < softBelow THEN <<Suggestion(soft, slice0(missing, 3))>>
        ELSE <<>>

\* C25 as stated: a keyword score below 75 gives the critical suggestion
\* naming the first up to 8 missing keywords in input order, from 75 to
\* below 85 the softer one naming the first up to 3, from 85 on neither;
\* skills coverage likewise with the bounds 75 and 90; below its soft bound
\* a score always comes with a missing list that is not empty, so that the
\* naming suggestion is there.
C25_NamingSuggestionsFollowTiers ==
    (Returned /\ ~extractThrows(resume)) =>
        LET report == scored.report
        IN  /\ InInputOrder(report.missingKeywords,
                            keywordsOf(OrEmpty(job.atsKeywords)))
            /\ InInputOrder(report.missingSkills, OrEmpty(job.requiredSkills))
            /\ NamingTier(report.keywordMatchScore, 8500,
                          report.missingKeywords,
                          "keywordsCritical", "keywordsRemaining",
                          Worded(report.suggestions,
                                 {"keywordsCritical", "keywordsRemaining"}))
            /\ NamingTier(report.skillsCoverageScore, 9000,
                          report.missingSkills,
                          "skillsImportant", "skillsConsider",
                          Worded(report.suggestions,
                                 {"skillsImportant", "skillsConsider"}))

KeywordWordings ==
    {"keywordsCritical", "keywordsRemaining", "keywordsIncorporate"}

\* C25, amended: the tiers of C25 hold for skills coverage, and for the
\* keyword score of a job that lists at least one ATS keyword; for a job
\* that lists none the keyword score is 0 with an empty missing list, and
\* the only keyword suggestion is the general one that names no keyword.
C25_NamingSuggestionsFollowTiersOfListedKeywords ==
    (Returned /\ ~extractThrows(resume)) =>
        LET report == scored.report
        IN  /\ InInputOrder(report.missingKeywords,
                            keywordsOf(OrEmpty(job.atsKeywords)))
            /\ InInputOrder(report.missingSkills, OrEmpty(job.requiredSkills))
            /\ IF OrEmpty(job.atsKeywords) = <<>>
                    THEN /\ report.keywordMatchScore = 0
                         /\ report.missingKeywords = <<>>
                         /\ Worded(report.suggestions, KeywordWordings)
                                = <<Plain("keywordsIncorporate")>>
                    ELSE NamingTier(report.keywordMatchScore, 8500,
                             report.missingKeywords,
                             "keywordsCritical", "keywordsRemaining",
                             Worded(report.suggestions,
                                    {"keywordsCritical", "keywordsRemaining"}))
            /\ NamingTier(report.skillsCoverageScore, 9000,
                          report.missingSkills,
                          "skillsImportant", "skillsConsider",
                          Worded(report.suggestions,
                                 {"skillsImportant", "skillsConsider"}))

\* a keyword score in the softer tier, with its suggestion, next to a
\* skills coverage in the critical tier with more than one missing skill
C25_Witness ==
    /\ Returned
    /\ scored.report.keywordMatchScore >= 7500
    /\ scored.report.keywordMatchScore < 8500
    /\ Worded(scored.report.suggestions, KeywordWordings)
           = <<Suggestion("keywordsRemaining",
                          slice0(scored.report.missingKeywords, 3))>>
    /\ scored.report.skillsCoverageScore < 7500
    /\ Len(scored.report.missingSkills) > 1

\* the arguments generateSuggestions gets from scoreResume for this report,
\* with the given list as stuffedKeywords
ScoresWith(stuffedKeywords) ==
    [keywordMatchScore |-> scored.report.keywordMatchScore,
     skillsCoverageScore |-> scored.report.skillsCoverageScore,
     contentQualityScore |-> scored.report.contentQualityScore,
     overallScore |-> scored.report.overallScore,
     missingKeywords |-> scored.report.missingKeywords,
     missingSkills |-> scored.report.missingSkills,
     stuffedKeywords |-> stuffedKeywords]

\* C26: a keyword is flagged as stuffed if and only if it occurs more than 5
\* times in the resume text; the flagged keywords change none of the four
\* scores, which are those of the three sub-scorers and their weighted sum,
\* and change the suggestions only by the one warning that names them.
C26_StuffingOnlyAddsAWarning ==
    (Returned /\ ~extractThrows(resume)) =>
        LET atsKeywords == OrEmpty(job.atsKeywords)
            text == extractResumeText(resume)
            flagged == scored.stuffedKeywords
            report == scored.report
        IN  /\ \A i \in 1..Len(atsKeywords) :
                    LET keyword == Get(atsKeywords[i].keyword)
                    IN  keyword \in Range(flagged)
                            <=> countKeywordOccurrences(text, keyword) > 5
            /\ report.keywordMatchScore
                   = calculateKeywordMatch(text, atsKeywords).score
            /\ report.skillsCoverageScore
                   = calculateSkillsCoverage(resume,
                         OrEmpty(job.requiredSkills)).score
            /\ report.contentQualityScore = calculateContentQuality(resume)
            /\ report.overallScore
                   = clampScore(weightedOverall(report.keywordMatchScore,
                                                report.skillsCoverageScore,
                                                report.contentQualityScore))
            /\ SelectSeq(report.suggestions,
                         LAMBDA s : s.id # "stuffingWarning")
                   = generateSuggestions(ScoresWith(<<>>), resume)
            /\ Worded(report.suggestions, {"stuffingWarning"})
                   = IF flagged = <<>> THEN <<>>
                     ELSE <<Suggestion("stuffingWarning", flagged)>>

\* one keyword of the job occurs exactly 5 times and is not flagged, or
\* 6 times and is flagged with the warning in the suggestions
C26_Witness ==
    /\ Returned
    /\ job.atsKeywords = Some(<<k_python5, k_java1>>)
    /\ \/ resume = r_javaFive /\ scored.stuffedKeywords = <<>>
       \/ /\ resume = r_javaSix
          /\ scored.stuffedKeywords = <<s_java>>
          /\ Suggestion("stuffingWarning", <<s_java>>)
                 \in Range(scored.report.suggestions)

\* the rank of a priority: high before medium before low
PriorityRank(priority) ==
    IF priority = "high" THEN 1 ELSE IF priority = "medium" THEN 2 ELSE 3

\* C27: the recommendations of a gap report are ranked by priority, no
\* recommendation standing before one of higher priority, and at most one
\* of them has priority high.
C27_RecommendationsRankedByPriority ==
    GapReturned =>
        LET recommendations == gap.report.recommendations
        IN  /\ \A i, j \in 1..Len(recommendations) :
                   i < j => PriorityRank(recommendations[i].priority)
                                <= PriorityRank(recommendations[j].priority)
            /\ Cardinality({i \in 1..Len(recommendations) :
                               recommendations[i].priority = "high"}) <= 1

\* the related concepts of the table entries of a skill: the entries whose
\* name the lower-cased skill contains or is contained in
RelatedConcepts(skill) ==
    UNION {Range(skillRelationships[e].related) :
            e \in {e \in 1..Len(skillRelationships) :
                      \/ includes(toLowerCase(skill), skillRelationships[e].skill)
                      \/ includes(skillRelationships[e].skill,
                                  toLowerCase(skill))}}

\* the bullets of the resume's experience entries, lower-cased
BulletsLower(resumeContent) ==
    UNION {{toLowerCase(b) : b \in Range(OrEmpty(exp.bullets))} :
            exp \in Range(OrEmpty(resumeContent.experience))}

\* the related concepts of the skill that occur in the user's free text or
\* in a bullet of the resume
ConceptsMentioned(skill, userAnswers, resumeContent) ==
    {c \in RelatedConcepts(skill) :
        \/ includes(userExperienceTextOf(userAnswers), c)
        \/ \E b \in BulletsLower(resumeContent) : includes(b, c)}

\* C28: relatedExperience of a missing skill is null or a list of 1 to 3
\* hints that name pairwise distinct related concepts; a related concept of
\* the skill's table entries gives a hint, up to the cap of 3, whether the
\* user's free text mentions it or a resume bullet does.
C28_HintsAreDistinctAndFromBothSources ==
    GapReturned =>
        \A m \in 1..Len(gap.report.skills.missing) :
            LET entry == gap.report.skills.missing[m]
                hints == OrEmpty(entry.relatedExperience)
                mentioned == ConceptsMentioned(entry.skill, answers, resume)
            IN  /\ Has(entry.relatedExperience) => Len(hints) \in 1..3
                /\ \A i, j \in 1..Len(hints) :
                       i # j => hints[i].concept # hints[j].concept
                /\ \A i \in 1..Len(hints) : hints[i].concept \in mentioned
                /\ Len(hints) < 3 =>
                       \A c \in mentioned :
                           \E i \in 1..Len(hints) : hints[i].concept = c

\* the required skill equals, case-insensitively, an entry of some skills
\* category of the resume
ListedInSomeCategory(resumeContent, skill) ==
    \E c \in SkillCategories :
        \E e \in Range(categoryEntries(resumeContent, c)) :
            toLowerCase(e) = toLowerCase(skill)

\* C29: for the same job and resume and empty user answers, a required skill
\* that equals, case-insensitively, an entry of some skills category of the
\* resume is missing neither for scoreResume nor for analyzeSkillsGap, under
\* the shape {technical, soft, tools} and under the shape {languages,
\* frameworks, databases, cloud, tools}.
C29_ScorerAndGapAnalyzerAgree ==
    (Returned /\ GapReturned /\ answers = a_empty) =>
        \A skill \in Range(OrEmpty(job.requiredSkills)) :
            ListedInSomeCategory(resume, skill) =>
                /\ skill \notin Range(scored.report.missingSkills)
                /\ skill \notin MissingSkillNames(gap.report)

(***************************************************************************)
(* Properties of useAchievementBank, checked under SpecBank                *)
(***************************************************************************)
\* the load is done, and the achievements a load would now read from
\* localStorage are those of the hook's state
InSync ==
    /\ isLoaded
    /\ getInitialState(storage).achievements = achievements

\* a step writes to localStorage only when isLoaded is true, and a write
\* made before any method was called keeps the achievements that were stored
WritesOnlyAfterLoad ==
    storage' # storage =>
        /\ isLoaded
        /\ call.n = 0 =>
               getInitialState(storage').achievements
                   = getInitialState(storage).achievements

\* a call of importAchievements with text that is not JSON returns a
\* failure and changes neither the achievements nor the pending updates
BadImportChangesNothing ==
    (call'.n # call.n /\ call'.fn = "importAchievements"
        /\ call'.json = "invalid") =>
            /\ ~call'.success
            /\ UNCHANGED <<achievements, queue>>

====
